---- MODULE Spec2Model ----
(***************************************************************************)
(* A model of the scoring and classification pipeline of cra-ai-tools:     *)
(*   - ContentSimilarityService.classifyRelationships and                  *)
(*     identifyIntentClusters (apps/api/src/simitrack),                    *)
(*   - ScoringService.evaluate and LlmService.evaluate with its three      *)
(*     concurrent judge calls (apps/api/src/llm-evaluator/services),       *)
(*   - the five heuristic analyzers (apps/api/src/llm-evaluator/analyzers).*)
(*                                                                         *)
(* Numbers.  Similarities are held in thousandths (780 is 0.78).  LLM      *)
(* scores returned by a judge are held in tenths (705 is 70.5).  The       *)
(* analyzers' fractional sub-scores are exact rationals <<n, d>>, d > 0;   *)
(* the source computes them in IEEE doubles, which can differ from the     *)
(* exact value by rounding error on a tie only.                            *)
(***************************************************************************)
EXTENDS Integers, Sequences, FiniteSets, TLC

VARIABLES
    simPc, score, relationship,
    cluPc, relationships, clusters,
    evalPc, includeLlm, apiKey, heuristicScore, calls, requests, settleOrder,
    llmResults, evalResult,
    anaPc, page, analyzed, heuristics,
    pipePc, urls, geminiKey, world, batchStart, fetched, fetchResults, fetchCount,
    withEmbeddings, embedCount, simiResult,
    vecA, vecB, cosine,
    isRunning, abortRequested, lastRunAt, configured, frames, inFlight,
    batchLog, csvRows, response

vars == <<simPc, score, relationship,
          cluPc, relationships, clusters,
          evalPc, includeLlm, apiKey, heuristicScore, calls, requests, settleOrder,
    llmResults, evalResult,
          anaPc, page, analyzed, heuristics,
          pipePc, urls, geminiKey, world, batchStart, fetched, fetchResults, fetchCount,
          withEmbeddings, embedCount, simiResult,
          vecA, vecB, cosine,
          isRunning, abortRequested, lastRunAt, configured, frames, inFlight,
          batchLog, csvRows, response>>

simVars == <<simPc, score, relationship>>

cluVars == <<cluPc, relationships, clusters>>

evalVars == <<evalPc, includeLlm, apiKey, heuristicScore, calls, requests, settleOrder,
    llmResults, evalResult>>

anaVars == <<anaPc, page, analyzed, heuristics>>

pipeVars == <<pipePc, urls, geminiKey, world, batchStart, fetched, fetchResults,
              fetchCount, withEmbeddings, embedCount, simiResult>>

cosVars == <<vecA, vecB, cosine>>

batVars == <<isRunning, abortRequested, lastRunAt, configured, frames, inFlight,
             batchLog, csvRows, response>>

\* null and undefined.  Every value that may be null is a record, so that it
\* can be compared with Null.
Null == [null |-> TRUE]

\* A number where the source allows number | null.
Some(n) == [value |-> n]

(***************************************************************************)
(* Generic helpers.                                                        *)
(***************************************************************************)
Range(s) == {s[i] : i \in 1..Len(s)}

Contains(s, x) == \E i \in 1..Len(s) : s[i] = x

RECURSIVE SumSeq(_)
SumSeq(s) == IF s = <<>> THEN 0 ELSE Head(s) + SumSeq(Tail(s))

Max2(a, b) == IF a >= b THEN a ELSE b

Min2(a, b) == IF a <= b THEN a ELSE b

\* Math.round(n / d) for integers n and d > 0: the nearest integer, a tie
\* going up (towards +infinity), which is floor(n/d + 1/2).
RoundDiv(n, d) == (2 * n + d) \div (2 * d)

(***************************************************************************)
(* ContentSimilarityService.classifyRelationships                          *)
(* (apps/api/src/simitrack/simitrack.module.ts).                           *)
(***************************************************************************)
\* THRESHOLDS, in thousandths.
DefiniteDuplicateBody == 780

DefiniteDuplicateTitle == 750

NearDuplicateBody == 700

NearDuplicateIntro == 650

IntentCollisionTitle == 700

IntentCollisionBodyMax == 600

PotentialCannibalizationTitle == 600

PotentialCannibalizationBodyMin == 450

PotentialCannibalizationBodyMax == 650

TemplateOverlapFull == 750

TemplateOverlapBodyMax == 550

Classifications ==
    {"Definite Duplicate", "Near Duplicate", "Intent Collision",
     "Potential Cannibalization", "Template Overlap", "Unique"}

\* The conditions of the five guarded branches, each as the source writes it.
IsDefiniteDuplicate(s) ==
    s.body >= DefiniteDuplicateBody /\ s.title >= DefiniteDuplicateTitle

IsNearDuplicate(s) ==
    s.body >= NearDuplicateBody /\ s.intro >= NearDuplicateIntro

IsIntentCollision(s) ==
    s.title >= IntentCollisionTitle /\ s.body < IntentCollisionBodyMax

IsPotentialCannibalization(s) ==
    /\ s.title >= PotentialCannibalizationTitle
    /\ s.body >= PotentialCannibalizationBodyMin
    /\ s.body < PotentialCannibalizationBodyMax

IsTemplateOverlap(s) ==
    s.full >= TemplateOverlapFull /\ s.body < TemplateOverlapBodyMax

\* Math.round(x * 100) / 100 of a similarity in thousandths, in hundredths.
RoundSummary(x) == RoundDiv(x, 10)

\* The rule chain with its first two branches exchanged: Near Duplicate is
\* tried before Definite Duplicate.
ClassifyOneSwapped(s) ==
    LET cc ==
            IF IsNearDuplicate(s) THEN
                <<"Near Duplicate", RoundDiv(s.body + s.intro, 20)>>
            ELSE IF IsDefiniteDuplicate(s) THEN
                <<"Definite Duplicate", RoundDiv(s.body + s.title, 20)>>
            ELSE IF s.title >= IntentCollisionTitle /\ s.body < IntentCollisionBodyMax THEN
                <<"Intent Collision", RoundDiv(s.title, 10)>>
            ELSE IF /\ s.title >= PotentialCannibalizationTitle
                    /\ s.body >= PotentialCannibalizationBodyMin
                    /\ s.body < PotentialCannibalizationBodyMax THEN
                <<"Potential Cannibalization", RoundDiv(s.title + s.body, 20)>>
            ELSE IF s.full >= TemplateOverlapFull /\ s.body < TemplateOverlapBodyMax THEN
                <<"Template Overlap", RoundDiv(s.full, 10)>>
            ELSE
                <<"Unique", RoundDiv(1000 - s.full, 10)>>
    IN  [classification |-> cc[1],
         confidence |-> cc[2],
         summary |-> [f \in {"title", "intro", "body", "full"} |-> RoundSummary(s[f])]]

\* The map callback with each confidence taken from the similarities of the
\* summary, which are rounded to 2 decimals.
ClassifyOneFromSummary(s) ==
    LET r == [f \in {"title", "intro", "body", "full"} |-> 10 * RoundSummary(s[f])]
        cc ==
            IF IsDefiniteDuplicate(s) THEN
                <<"Definite Duplicate", RoundDiv(r.body + r.title, 20)>>
            ELSE IF IsNearDuplicate(s) THEN
                <<"Near Duplicate", RoundDiv(r.body + r.intro, 20)>>
            ELSE IF IsIntentCollision(s) THEN
                <<"Intent Collision", RoundDiv(r.title, 10)>>
            ELSE IF IsPotentialCannibalization(s) THEN
                <<"Potential Cannibalization", RoundDiv(r.title + r.body, 20)>>
            ELSE IF IsTemplateOverlap(s) THEN
                <<"Template Overlap", RoundDiv(r.full, 10)>>
            ELSE
                <<"Unique", RoundDiv(1000 - r.full, 10)>>
    IN  [classification |-> cc[1],
         confidence |-> cc[2],
         summary |-> [f \in {"title", "intro", "body", "full"} |-> RoundSummary(s[f])]]

\* The body of the map callback: the if / else-if chain, the confidence of the
\* branch taken and the rounded summary.
ClassifyOne(s) ==
    LET cc ==
            IF IsDefiniteDuplicate(s) THEN
                <<"Definite Duplicate", RoundDiv(s.body + s.title, 20)>>
            ELSE IF IsNearDuplicate(s) THEN
                <<"Near Duplicate", RoundDiv(s.body + s.intro, 20)>>
            ELSE IF IsIntentCollision(s) THEN
                <<"Intent Collision", RoundDiv(s.title, 10)>>
            ELSE IF IsPotentialCannibalization(s) THEN
                <<"Potential Cannibalization", RoundDiv(s.title + s.body, 20)>>
            ELSE IF IsTemplateOverlap(s) THEN
                <<"Template Overlap", RoundDiv(s.full, 10)>>
            ELSE
                <<"Unique", RoundDiv(1000 - s.full, 10)>>
    IN  [classification |-> cc[1],
         confidence |-> cc[2],
         summary |-> [f \in {"title", "intro", "body", "full"} |-> RoundSummary(s[f])]]

SimIdle ==
    /\ simPc = "off"
    /\ score = [title |-> 0, intro |-> 0, body |-> 0, full |-> 0]
    /\ relationship = Null

\* The similarities the classifier is tried on: every threshold, the value
\* just below it, and values outside [0,1] (a cosine can be negative).
SimInit ==
    LET titleGrid == {-200, 0, 599, 600, 699, 700, 749, 750, 755, 760, 1000}
        introGrid == {0, 649, 650, 700, 1000}
        bodyGrid ==
            {-200, 0, 449, 450, 549, 550, 599, 600, 649, 650, 699, 700, 779, 780,
             785, 800, 1000}
        fullGrid == {-100, 0, 749, 750, 755, 1000}
    IN  /\ simPc = "scored"
        /\ score \in [title : titleGrid, intro : introGrid, body : bodyGrid,
                       full : fullGrid]
        /\ relationship = Null

\* classifyRelationships on the one score of the state.
ClassifyRelationships ==
    /\ simPc = "scored"
    /\ relationship' = ClassifyOne(score)
    /\ simPc' = "classified"
    /\ UNCHANGED <<score, cluVars, evalVars, anaVars, pipeVars, cosVars, batVars>>

(***************************************************************************)
(* ContentSimilarityService.identifyIntentClusters                         *)
(* (apps/api/src/simitrack/simitrack.module.ts).                           *)
(*                                                                         *)
(* A Map or Set of the source is a sequence without repetition, in         *)
(* insertion order, which is the order JavaScript iterates it in.          *)
(***************************************************************************)
\* Set.prototype.add on an insertion-ordered set.
SetAdd(s, x) == IF Contains(s, x) THEN s ELSE Append(s, x)

\* The filter that keeps every relationship, whatever its classification.
CollisionsAll(rels) == rels

\* relationships.filter(r => r.classification === 'Intent Collision')
RECURSIVE Collisions(_)
Collisions(rels) ==
    IF rels = <<>> THEN <<>>
    ELSE (IF Head(rels).classification = "Intent Collision" THEN <<Head(rels)>> ELSE <<>>)
         \o Collisions(Tail(rels))

\* One pass of the loop that fills urlConnections: keys holds the map's keys
\* in insertion order, adj the set of each key.
AddCollision(conn, c) ==
    LET keys1 == SetAdd(conn.keys, c.url_a)
        keys2 == SetAdd(keys1, c.url_b)
        get(u) == IF u \in DOMAIN conn.adj THEN conn.adj[u] ELSE <<>>
        adjA == SetAdd(get(c.url_a), c.url_b)
        adj1 == [u \in (DOMAIN conn.adj) \cup {c.url_a, c.url_b} |->
                    IF u = c.url_a THEN adjA ELSE get(u)]
        adjB == SetAdd(adj1[c.url_b], c.url_a)
    IN  [keys |-> keys2,
         adj |-> [u \in DOMAIN adj1 |-> IF u = c.url_b THEN adjB ELSE adj1[u]]]

RECURSIVE BuildConnections(_, _)
BuildConnections(conn, cols) ==
    IF cols = <<>> THEN conn
    ELSE BuildConnections(AddCollision(conn, Head(cols)), Tail(cols))

EmptyConnections == [keys |-> <<>>, adj |-> [u \in {} |-> <<>>]]

\* The neighbours of current that are pushed on the queue: those not visited.
RECURSIVE Unvisited(_, _)
Unvisited(connections, visited) ==
    IF connections = <<>> THEN <<>>
    ELSE (IF Head(connections) \notin visited THEN <<Head(connections)>> ELSE <<>>)
         \o Unvisited(Tail(connections), visited)

\* The traversal with the neighbours put at the front of the queue instead
\* of the back: a depth-first visit.
RECURSIVE BfsDepthFirst(_, _, _, _)
BfsDepthFirst(conn, queue, visited, cluster) ==
    IF queue = <<>> THEN [visited |-> visited, cluster |-> cluster]
    ELSE LET current == Head(queue)
         IN  IF current \in visited
             THEN BfsDepthFirst(conn, Tail(queue), visited, cluster)
             ELSE BfsDepthFirst(conn,
                      Unvisited(conn.adj[current], visited \cup {current}) \o Tail(queue),
                      visited \cup {current},
                      Append(cluster, current))

\* The while loop over the queue: shift, skip a visited node, else visit it
\* and push its unvisited neighbours at the back.
RECURSIVE Bfs(_, _, _, _)
Bfs(conn, queue, visited, cluster) ==
    IF queue = <<>> THEN [visited |-> visited, cluster |-> cluster]
    ELSE LET current == Head(queue)
         IN  IF current \in visited
             THEN Bfs(conn, Tail(queue), visited, cluster)
             ELSE Bfs(conn,
                      Tail(queue) \o Unvisited(conn.adj[current], visited \cup {current}),
                      visited \cup {current},
                      Append(cluster, current))

\* The emission test without the size check: every traversal emits a cluster.
EmitClusterAlways(out, cluster) ==
    Append(out, [primary_url |-> cluster[1], cluster_urls |-> Tail(cluster)])

\* if (cluster.length > 1) clusters.push({primary_url: cluster[0],
\*                                        cluster_urls: cluster.slice(1)})
EmitCluster(out, cluster) ==
    IF Len(cluster) > 1
    THEN Append(out, [primary_url |-> cluster[1], cluster_urls |-> Tail(cluster)])
    ELSE out

\* The for loop over urlConnections.keys().
RECURSIVE ClusterLoop(_, _, _, _)
ClusterLoop(conn, keys, visited, out) ==
    IF keys = <<>> THEN out
    ELSE IF Head(keys) \in visited
         THEN ClusterLoop(conn, Tail(keys), visited, out)
         ELSE LET r == Bfs(conn, <<Head(keys)>>, visited, <<>>)
              IN  ClusterLoop(conn, Tail(keys), r.visited, EmitCluster(out, r.cluster))

IdentifyIntentClusters(rels) ==
    LET collisions == Collisions(rels)
    IN  IF Len(collisions) = 0 THEN <<>>
        ELSE LET conn == BuildConnections(EmptyConnections, collisions)
             IN  ClusterLoop(conn, conn.keys, {}, <<>>)

URLs == {"a", "b", "c", "d"}

\* The longest relationship list tried.
MaxRels == 3

CluIdle ==
    /\ cluPc = "off"
    /\ relationships = <<>>
    /\ clusters = <<>>

\* Relationships tried: an Intent Collision between any two URLs, in either
\* order, one of a URL with itself (a URL listed twice in the request), and
\* relationships of other classifications; lists of up to MaxRels of them.
CluInit ==
    LET relInputs ==
            {r \in [url_a : URLs, url_b : URLs, classification : {"Intent Collision"}] :
                r.url_a # r.url_b}
            \cup {[url_a |-> "a", url_b |-> "a", classification |-> "Intent Collision"],
                  [url_a |-> "a", url_b |-> "c", classification |-> "Near Duplicate"],
                  [url_a |-> "c", url_b |-> "d", classification |-> "Unique"]}
    IN  /\ cluPc = "ready"
        /\ relationships \in UNION {[1..n -> relInputs] : n \in 0..MaxRels}
        /\ clusters = <<>>

\* identifyIntentClusters(relationships)
IdentifyClusters ==
    /\ cluPc = "ready"
    /\ clusters' = IdentifyIntentClusters(relationships)
    /\ cluPc' = "done"
    /\ UNCHANGED <<relationships, simVars, evalVars, anaVars, pipeVars, cosVars, batVars>>

(***************************************************************************)
(* LlmService and ScoringService                                           *)
(* (apps/api/src/llm-evaluator/services/scoring.service.ts).               *)
(***************************************************************************)
\* Object.keys(MODELS), in the order the object literal lists them.
ModelKeys == <<"claude", "gpt", "gemini">>

Models == Range(ModelKeys)

\* The dimensions parseEvaluation validates, in the order it checks them.
Dimensions ==
    <<"extractability", "citation_worthiness", "query_relevance",
      "structure_quality", "authority_signals">>

\* clamp without the lower bound.
ClampUpperOnly(value) == Min2(100, RoundDiv(value, 10))

\* LlmService.clamp of a number held in tenths.
Clamp(value) == Max2(0, Min2(100, RoundDiv(value, 10)))

\* JSON values of a reply: a property that is absent (undefined), one that is
\* not a number (a string), a number in tenths, an object with a score.
JAbsent == [t |-> "absent"]

JText == [t |-> "text"]

JNum(n) == [t |-> "num", v |-> n]

JDim(scoreValue) == [t |-> "object", score |-> scoreValue]

\* typeof x === 'number'
IsNumber(x) == x.t = "num"

\* !parsed[dim] || typeof parsed[dim].score !== 'number'
DimInvalid(d) == d.t = "absent" \/ ~IsNumber(d.score)

\* The first dimension, in checking order, that fails validation; 0 if none.
FirstInvalidDim(parsed) ==
    LET bad == {i \in 1..Len(Dimensions) : DimInvalid(parsed.dims[Dimensions[i]])}
    IN  IF bad = {} THEN 0 ELSE CHOOSE i \in bad : \A j \in bad : i <= j

\* parseEvaluation without the check of structure_quality.
ParseEvaluationLax(content) ==
    IF content.json # "object" THEN Null
    ELSE IF \E i \in 1..Len(Dimensions) :
                /\ Dimensions[i] # "structure_quality"
                /\ DimInvalid(content.dims[Dimensions[i]]) THEN Null
    ELSE IF ~IsNumber(content.overall) THEN Null
    ELSE [dims |-> [d \in Range(Dimensions) |->
                       IF DimInvalid(content.dims[d]) THEN 0
                       ELSE Clamp(content.dims[d].score.v)],
          overall_score |-> Clamp(content.overall.v)]

\* parseEvaluation(content): null when JSON.parse throws or a property of a
\* parsed null is read (both are caught), when a dimension fails validation,
\* or when overall_score is not a number; otherwise the evaluation with every
\* score clamped.
ParseEvaluation(content) ==
    IF content.json # "object" THEN Null
    ELSE IF FirstInvalidDim(content) # 0 THEN Null
    ELSE IF ~IsNumber(content.overall) THEN Null
    ELSE [dims |-> [d \in Range(Dimensions) |-> Clamp(content.dims[d].score.v)],
          overall_score |-> Clamp(content.overall.v)]

\* callModel(model, userPrompt) once the request has ended with outcome: the
\* promise it returns is fulfilled with null on !response.ok, on no content
\* and on anything thrown (the catch block), else with parseEvaluation.
CallModel(outcome) ==
    IF outcome.kind \in {"http_error", "no_content", "network_error", "timeout"}
        THEN [status |-> "fulfilled", value |-> Null]
    ELSE [status |-> "fulfilled", value |-> ParseEvaluation(outcome.content)]

\* computeConsensus that divides by the number of models, not of scores.
ComputeConsensusAllModels(scores) ==
    IF Len(scores) = 0 THEN Null ELSE Some(RoundDiv(SumSeq(scores), Len(ModelKeys)))

\* computeConsensus(scores)
ComputeConsensus(scores) ==
    IF Len(scores) = 0 THEN Null ELSE Some(RoundDiv(SumSeq(scores), Len(scores)))

\* The key test that takes any key, the empty one too, as configured.
HasApiKeyAlways(key) == TRUE

\* !this.apiKey is false: a key is configured (the default is '').
HasApiKey(key) == key # ""

NoLlmResults ==
    [claude |-> Null, gpt |-> Null, gemini |-> Null, consensus_score |-> Null]

\* const { key } = result.value
ResultKey(result) == result.key

\* The loop over the settled results: a fulfilled result with an evaluation
\* is stored under its key and its overall_score is pushed on scores.
RECURSIVE ReduceResults(_, _)
ReduceResults(results, acc) ==
    IF results = <<>> THEN acc
    ELSE LET result == Head(results)
         IN  IF result.status = "fulfilled" /\ result.value # Null
             THEN ReduceResults(Tail(results),
                      [llm |-> [acc.llm EXCEPT ![ResultKey(result)] = result.value],
                       scores |-> Append(acc.scores, result.value.overall_score)])
             ELSE ReduceResults(Tail(results), acc)

\* The condition under which the await of the three calls resumes when it
\* resumes on the first call that settles.
AnySettled(c) == \E k \in Models : c[k].status \in {"fulfilled", "rejected"}

\* Promise.allSettled: the await resumes once every call has settled.
AllSettled(c) == \A k \in Models : c[k].status \in {"fulfilled", "rejected"}

\* The part of LlmService.evaluate after the await.
LlmReduce(c) ==
    LET results == [i \in 1..Len(ModelKeys) |->
                       [key |-> ModelKeys[i],
                        status |-> c[ModelKeys[i]].status,
                        value |-> c[ModelKeys[i]].value]]
        acc == ReduceResults(results, [llm |-> NoLlmResults, scores |-> <<>>])
    IN  [acc.llm EXCEPT !.consensus_score = ComputeConsensus(acc.scores)]

\* The blend with the consensus ignored.
BlendHeuristicsOnly(h, consensus, withLlm) == h

\* overallScore: Math.round(heuristicScore * 0.5 + consensus * 0.5) when the
\* LLM was requested and a consensus exists, else heuristicScore.
Blend(h, consensus, withLlm) ==
    IF withLlm /\ consensus # Null THEN RoundDiv(h + consensus.value, 2) ELSE h

\* The result with score_composition taken from the request alone.
ScoringResultBlendedWhenEnabled(h, llm, withLlm) ==
    [overall_score |-> Blend(h, llm.consensus_score, withLlm),
     llm_evaluations |-> llm,
     llm_enabled |-> withLlm,
     llm_models_succeeded |->
         IF withLlm THEN Cardinality({k \in Models : llm[k] # Null}) ELSE 0,
     score_composition |-> IF withLlm THEN "blended" ELSE "heuristics_only"]

\* The part of ScoringService.evaluate after llmResults is known.
ScoringResult(h, llm, withLlm) ==
    [overall_score |-> Blend(h, llm.consensus_score, withLlm),
     llm_evaluations |-> llm,
     llm_enabled |-> withLlm,
     llm_models_succeeded |->
         IF withLlm THEN Cardinality({k \in Models : llm[k] # Null}) ELSE 0,
     score_composition |->
         IF withLlm /\ llm.consensus_score # Null THEN "blended" ELSE "heuristics_only"]

\* Replies of a judge, scores in tenths (below 0, fractional, above 100 are
\* among them): well-formed ones, ones with one dimension absent or
\* with a score that is absent or not a number, ones whose overall_score is
\* absent or not a number, text that is not JSON, and the JSON text null.
Contents ==
    LET rawScores == {-50, 600, 605, 1500}
        validDims(r) == [d \in Range(Dimensions) |-> JDim(JNum(r))]
    IN  {[json |-> "object", dims |-> validDims(r), overall |-> JNum(o)] :
            r \in {-50, 705}, o \in rawScores}
        \cup {[json |-> "object", dims |-> validDims(1500), overall |-> JNum(605)]}
        \cup {[json |-> "object",
               dims |-> [validDims(705) EXCEPT ![d] = f],
               overall |-> JNum(600)] :
                d \in Range(Dimensions),
                f \in {JAbsent, JDim(JAbsent), JDim(JText)}}
        \cup {[json |-> "object", dims |-> validDims(705), overall |-> o] :
                o \in {JAbsent, JText}}
        \cup {[json |-> j, dims |-> validDims(705), overall |-> JNum(600)] :
                j \in {"invalid", "null"}}

\* How a request to the provider can end.
Outcomes ==
    {[kind |-> k, content |-> Null] :
        k \in {"http_error", "no_content", "network_error", "timeout"}}
    \cup {[kind |-> "content", content |-> c] : c \in Contents}

IdleCall == [status |-> "idle", value |-> Null, outcome |-> Null]

EvalIdle ==
    /\ evalPc = "off"
    /\ includeLlm = FALSE
    /\ apiKey = ""
    /\ heuristicScore = 0
    /\ calls = [k \in Models |-> IdleCall]
    /\ requests = [k \in Models |-> 0]
    /\ settleOrder = <<>>
    /\ llmResults = Null
    /\ evalResult = Null

EvalInit ==
    /\ evalPc = "start"
    /\ includeLlm \in BOOLEAN
    /\ apiKey \in {"", "key"}
    /\ heuristicScore \in {0, 80, 81, 100}
    /\ calls = [k \in Models |-> IdleCall]
    /\ requests = [k \in Models |-> 0]
    /\ settleOrder = <<>>
    /\ llmResults = Null
    /\ evalResult = Null

\* ScoringService.evaluate with includeLlm false: LlmService is not called.
EvaluateHeuristicsOnly ==
    /\ evalPc = "start"
    /\ ~includeLlm
    /\ evalResult' = ScoringResult(heuristicScore, NoLlmResults, includeLlm)
    /\ evalPc' = "done"
    /\ UNCHANGED <<includeLlm, apiKey, heuristicScore, calls, requests, settleOrder,
                   llmResults>>
    /\ UNCHANGED <<simVars, cluVars, anaVars, pipeVars, cosVars, batVars>>

\* includeLlm true and no key: LlmService.evaluate returns all null at once.
EvaluateLlmSkipped ==
    /\ evalPc = "start"
    /\ includeLlm
    /\ ~HasApiKey(apiKey)
    /\ llmResults' = NoLlmResults
    /\ evalResult' = ScoringResult(heuristicScore, NoLlmResults, includeLlm)
    /\ evalPc' = "done"
    /\ UNCHANGED <<includeLlm, apiKey, heuristicScore, calls, requests, settleOrder>>
    /\ UNCHANGED <<simVars, cluVars, anaVars, pipeVars, cosVars, batVars>>

\* includeLlm true with a key: the map over the model keys calls callModel
\* for each of them, and each runs to its await of fetch, before the await
\* of Promise.allSettled suspends evaluate.
EvaluateFanOut ==
    /\ evalPc = "start"
    /\ includeLlm
    /\ HasApiKey(apiKey)
    /\ calls' = [k \in Models |-> [IdleCall EXCEPT !.status = "inflight"]]
    /\ requests' = [k \in Models |-> requests[k] + 1]
    /\ evalPc' = "awaiting"
    /\ UNCHANGED <<includeLlm, apiKey, heuristicScore, settleOrder, llmResults, evalResult>>
    /\ UNCHANGED <<simVars, cluVars, anaVars, pipeVars, cosVars, batVars>>

\* The request of model k ends, with any outcome, and callModel returns.
CallSettle(k) ==
    /\ evalPc = "awaiting"
    /\ calls[k].status = "inflight"
    /\ \E outcome \in Outcomes :
           LET p == CallModel(outcome)
           IN  calls' = [calls EXCEPT ![k] =
                            [status |-> p.status, value |-> p.value, outcome |-> outcome]]
    /\ settleOrder' = Append(settleOrder, k)
    /\ UNCHANGED <<evalPc, includeLlm, apiKey, heuristicScore, requests, llmResults, evalResult>>
    /\ UNCHANGED <<simVars, cluVars, anaVars, pipeVars, cosVars, batVars>>

\* The await of Promise.allSettled resumes: the results are reduced and
\* ScoringService.evaluate blends and returns.
EvaluateFanIn ==
    /\ evalPc = "awaiting"
    /\ AllSettled(calls)
    /\ llmResults' = LlmReduce(calls)
    /\ evalResult' = ScoringResult(heuristicScore, LlmReduce(calls), includeLlm)
    /\ evalPc' = "done"
    /\ UNCHANGED <<includeLlm, apiKey, heuristicScore, calls, requests, settleOrder>>
    /\ UNCHANGED <<simVars, cluVars, anaVars, pipeVars, cosVars, batVars>>

(***************************************************************************)
(* Exact arithmetic for the analyzers: a number is <<n, d>> with d > 0,    *)
(* in lowest terms.                                                        *)
(***************************************************************************)
Abs(n) == IF n < 0 THEN 0 - n ELSE n

RECURSIVE Gcd(_, _)
Gcd(a, b) == IF b = 0 THEN a ELSE Gcd(b, a % b)

Frac(n, d) ==
    LET g == Gcd(Abs(n), d)
    IN  IF g = 0 THEN <<0, 1>> ELSE <<n \div g, d \div g>>

Num(n) == <<n, 1>>

RAdd(x, y) == Frac(x[1] * y[2] + y[1] * x[2], x[2] * y[2])

RSub(x, y) == Frac(x[1] * y[2] - y[1] * x[2], x[2] * y[2])

RMul(x, y) == Frac(x[1] * y[1], x[2] * y[2])

RLe(x, y) == x[1] * y[2] <= y[1] * x[2]

RLt(x, y) == x[1] * y[2] < y[1] * x[2]

RMax(x, y) == IF RLe(y, x) THEN x ELSE y

RMin(x, y) == IF RLe(x, y) THEN x ELSE y

\* Math.round(x)
RRound(x) == Num(RoundDiv(x[1], x[2]))

\* Math.round(x * k) / k, the rounding to a fixed number of decimals.
RRoundTo(x, k) == Frac(RoundDiv(x[1] * k, x[2]), k)

IsInteger(x) == x[2] = 1

\* The sum of weight[i] * sub[i], the weights in hundredths.
RECURSIVE Weighted(_, _)
Weighted(weights, subs) ==
    IF weights = <<>> THEN Num(0)
    ELSE RAdd(RMul(Frac(Head(weights), 100), Head(subs)),
              Weighted(Tail(weights), Tail(subs)))

\* The weights of the sub-scores of each analyzer, in hundredths, in the
\* order of its weighted sum.
Weights ==
    [semantic_html |-> <<25, 25, 20, 15, 15>>,
     structured_data |-> <<30, 15, 25, 15, 15>>,
     content_clarity |-> <<30, 25, 20, 25>>,
     citation_markers |-> <<25, 20, 20, 20, 15>>,
     factual_density |-> <<30, 25, 25, 20>>]

\* The analyzers' clamp with no lower limit.
AnalyzerClampUpperOnly(n) == RMin(Num(100), n)

\* function clamp(n) of each analyzer: Math.max(0, Math.min(100, n)).
AnalyzerClamp(n) == RMax(Num(0), RMin(Num(100), n))

\* A sequence with x when cond holds, else empty: a conditional push.
PushIf(cond, x) == IF cond THEN <<x>> ELSE <<>>

Count(cond) == IF cond THEN 1 ELSE 0

(***************************************************************************)
(* The heuristic analyzers (apps/api/src/llm-evaluator/analyzers).         *)
(*                                                                         *)
(* A page holds what the analyzers read of a ParsedPage.  Text is held by  *)
(* what the regular expressions and counters find in it: the number of     *)
(* characters, words, sentences and syllables, and the number of matches   *)
(* of each pattern list.  The result of an analyzer is its score, the      *)
(* number of issues and the priorities of its actionable items in order;   *)
(* the texts of details, issues and recommendations are left out.          *)
(***************************************************************************)
AnalyzerResult(total, issues, items) ==
    [score |-> AnalyzerClamp(total), issues |-> issues, items |-> items]

\* The heading hierarchy score without the points of the else branches: 40,
\* 40 and 20 for the three conditions met, nothing otherwise.
HeadingScoreNoPartial(headings) ==
    IF Len(headings) = 0 THEN 0
    ELSE LET h1Count == Cardinality({i \in 1..Len(headings) : headings[i].level = 1})
             hasSkips ==
                 \E i \in 2..Len(headings) : headings[i].level > headings[i - 1].level + 1
             uniqueLevels == {headings[i].level : i \in 1..Len(headings)}
         IN  Min2(100,
                  (IF h1Count = 1 THEN 40 ELSE 0)
                  + (IF ~hasSkips THEN 40 ELSE 0)
                  + (IF Cardinality(uniqueLevels) >= 3 THEN 20 ELSE 0))

\* Heading hierarchy (25%).
HeadingScore(headings) ==
    IF Len(headings) = 0 THEN 0
    ELSE LET h1Count == Cardinality({i \in 1..Len(headings) : headings[i].level = 1})
             hasSkips ==
                 \E i \in 2..Len(headings) : headings[i].level > headings[i - 1].level + 1
             uniqueLevels == {headings[i].level : i \in 1..Len(headings)}
         IN  Min2(100,
                  (IF h1Count = 1 THEN 40 ELSE IF h1Count = 0 THEN 0 ELSE 15)
                  + (IF ~hasSkips THEN 40 ELSE 10)
                  + (IF Cardinality(uniqueLevels) >= 3 THEN 20 ELSE 10))

ExpectedLandmarks == {"nav", "main", "header", "footer"}

\* Landmark usage (25%).
LandmarkScore(landmarks) ==
    LET landmarkTags == {landmarks[i].tag : i \in 1..Len(landmarks)}
        foundCount == Cardinality(ExpectedLandmarks \cap landmarkTags)
    IN  RoundDiv(foundCount * 100, Cardinality(ExpectedLandmarks))

\* Semantic-to-div ratio (20%).
SemanticRatioScore(semanticElements, divCount) ==
    LET totalSemantic == SumSeq(semanticElements)
        totalContainers == totalSemantic + divCount
    IN  IF totalContainers = 0 THEN 50
        ELSE Min2(100, RoundDiv(totalSemantic * 250, totalContainers))

\* List structures (15%).
ListScore(lists) ==
    IF Len(lists) > 0
    THEN Min2(100,
              60 + (IF \E i \in 1..Len(lists) : lists[i].tag = "dl" THEN 20 ELSE 0)
                 + (IF \E i \in 1..Len(lists) : lists[i].itemCount >= 3 THEN 20 ELSE 0))
    ELSE 30

TablePoints(table) ==
    (IF table.hasHead THEN 40 ELSE 0) + (IF table.hasBody THEN 30 ELSE 0)
    + (IF table.hasScopeHeaders THEN 30 ELSE 0)

\* Table semantics (15%).
TableScore(tables) ==
    IF Len(tables) > 0
    THEN RoundDiv(SumSeq([i \in 1..Len(tables) |-> TablePoints(tables[i])]), Len(tables))
    ELSE 100

\* analyzeSemanticHTML(page)
AnalyzeSemanticHTMLOf(pg) ==
    LET headings == pg.headings
        h1Count == Cardinality({i \in 1..Len(headings) : headings[i].level = 1})
        hasSkips ==
            \E i \in 2..Len(headings) : headings[i].level > headings[i - 1].level + 1
        landmarkTags == {pg.landmarks[i].tag : i \in 1..Len(pg.landmarks)}
        allLandmarks == ExpectedLandmarks \subseteq landmarkTags
        totalSemantic == SumSeq(pg.semanticElements)
        totalContainers == totalSemantic + pg.divCount
        lowRatio == totalContainers # 0 /\ totalSemantic * 100 < 15 * totalContainers
        tableScore == TableScore(pg.tables)
        totalScore ==
            RRound(Weighted(Weights.semantic_html,
                            <<Num(HeadingScore(headings)),
                              Num(LandmarkScore(pg.landmarks)),
                              Num(SemanticRatioScore(pg.semanticElements, pg.divCount)),
                              Num(ListScore(pg.lists)),
                              Num(tableScore)>>))
        issues ==
            (IF Len(headings) = 0 THEN 1
             ELSE Count(h1Count # 1) + Count(hasSkips))
            + Count(~allLandmarks)
        items ==
            (IF Len(headings) = 0 THEN <<"high">>
             ELSE PushIf(h1Count = 0, "high") \o PushIf(h1Count > 1, "medium")
                  \o PushIf(hasSkips, "medium"))
            \o PushIf(~allLandmarks /\ "main" \notin landmarkTags, "high")
            \o PushIf(lowRatio, "medium")
            \o PushIf(Len(pg.tables) > 0 /\ tableScore < 70, "low")
    IN  AnalyzerResult(totalScore, issues, items)

EssentialOg == {"og:title", "og:description", "og:type", "og:url"}

\* JSON-LD / Schema.org (30%): a block counts as typed when its @type is truthy.
JsonLdScore(jsonLd) ==
    IF Len(jsonLd) > 0
    THEN (IF \E i \in 1..Len(jsonLd) : jsonLd[i].type # "" THEN 100 ELSE 70)
    ELSE 0

\* OpenGraph tags (25%).
OgScore(ogKeys) ==
    LET found == Cardinality(EssentialOg \cap ogKeys)
    IN  IF found = Cardinality(EssentialOg) THEN 100
        ELSE IF found > 0 THEN RoundDiv(found * 80, Cardinality(EssentialOg))
        ELSE 0

\* Breadcrumb markup (15%).
BreadcrumbScore(pg) ==
    LET hasBreadcrumbSchema ==
            \E i \in 1..Len(pg.jsonLd) :
                pg.jsonLd[i].type = "BreadcrumbList" \/ pg.jsonLd[i].graphBreadcrumb
        hasBreadcrumbMicrodata ==
            \E i \in 1..Len(pg.microdata) : pg.microdata[i].breadcrumb
        hasBreadcrumbNav ==
            \E i \in 1..Len(pg.landmarks) :
                pg.landmarks[i].role = "navigation" \/ pg.landmarks[i].tag = "nav"
    IN  IF hasBreadcrumbSchema \/ hasBreadcrumbMicrodata THEN 100
        ELSE IF hasBreadcrumbNav THEN 40
        ELSE 0

\* analyzeStructuredData(page).  metaTags and openGraph are held as the set
\* of keys with a non-empty value; ogKeys as the set of keys present.
AnalyzeStructuredDataOf(pg) ==
    LET jsonLdScore == JsonLdScore(pg.jsonLd)
        microdataScore == IF Len(pg.microdata) > 0 THEN 100 ELSE 40
        foundOg == Cardinality(EssentialOg \cap pg.ogKeys)
        breadcrumbScore == BreadcrumbScore(pg)
        hasAuthorMeta == "author" \in pg.metaTags
        hasArticleDate ==
            "article:published_time" \in pg.metaTags
            \/ "article:published_time" \in pg.openGraph
        hasDescription == "description" \in pg.metaTags
        hasAuthorSchema ==
            \E i \in 1..Len(pg.jsonLd) :
                pg.jsonLd[i].author \/ pg.jsonLd[i].creator \/ pg.jsonLd[i].graphAuthor
        authorScore ==
            Min2(100, (IF hasAuthorMeta \/ hasAuthorSchema THEN 40 ELSE 0)
                      + (IF hasDescription THEN 30 ELSE 0)
                      + (IF hasArticleDate THEN 30 ELSE 0))
        totalScore ==
            RRound(Weighted(Weights.structured_data,
                            <<Num(jsonLdScore), Num(microdataScore), Num(OgScore(pg.ogKeys)),
                              Num(breadcrumbScore), Num(authorScore)>>))
        issues ==
            Count(Len(pg.jsonLd) = 0) + Count(foundOg < Cardinality(EssentialOg))
            + Count(~(hasAuthorMeta \/ hasAuthorSchema)) + Count(~hasDescription)
        items ==
            PushIf(Len(pg.jsonLd) = 0, "high") \o PushIf(foundOg = 0, "medium")
            \o PushIf(breadcrumbScore = 0, "low") \o PushIf(~hasDescription, "high")
    IN  AnalyzerResult(totalScore, issues, items)

(***************************************************************************)
(* Text metrics (apps/api/src/llm-evaluator/utils/text-analysis.util.ts)   *)
(* of a text t given by its counts: t.words is getWords(text).length,      *)
(* t.sentences is splitSentences(text).length, t.syllables is              *)
(* totalSyllables(text), t.jargon the matches of JARGON_PATTERNS.          *)
(***************************************************************************)
\* fleschKincaidReadingEase(text)
FleschKincaidReadingEase(t) ==
    IF t.sentences = 0 \/ t.words = 0 THEN Num(0)
    ELSE LET avgWordsPerSentence == Frac(t.words, t.sentences)
             avgSyllablesPerWord == Frac(t.syllables, t.words)
             fk == RSub(RSub(Frac(206835, 1000),
                             RMul(Frac(1015, 1000), avgWordsPerSentence)),
                        RMul(Frac(846, 10), avgSyllablesPerWord))
         IN  RMax(Num(0), RMin(Num(100), RRoundTo(fk, 10)))

\* averageSentenceLength(text)
AverageSentenceLength(t) ==
    IF t.sentences = 0 THEN Num(0) ELSE RRoundTo(Frac(t.words, t.sentences), 10)

\* jargonDensity(text)
JargonDensity(t) ==
    IF t.words = 0 THEN Num(0) ELSE RRoundTo(Frac(t.jargon * 100, t.words), 100)

\* page.paragraphs.join(' '): the characters and words of the paragraphs,
\* with one space between two paragraphs, and the counts over the joined text.
JoinedParagraphs(pg) ==
    LET n == Len(pg.paragraphs)
    IN  [chars |-> SumSeq([i \in 1..n |-> pg.paragraphs[i].chars]) + Max2(0, n - 1),
         words |-> SumSeq([i \in 1..n |-> pg.paragraphs[i].words]),
         sentences |-> pg.paragraphText.sentences,
         syllables |-> pg.paragraphText.syllables,
         jargon |-> pg.paragraphText.jargon]

\* Flesch-Kincaid readability (30%).
ReadabilityScore(fkScore) ==
    IF RLe(Num(60), fkScore) THEN Num(100)
    ELSE IF RLe(Num(40), fkScore)
        THEN RAdd(Num(50), RMul(RSub(fkScore, Num(40)), Frac(25, 10)))
    ELSE IF RLe(Num(20), fkScore)
        THEN RAdd(Num(20), RMul(RSub(fkScore, Num(20)), Frac(15, 10)))
    ELSE fkScore

\* Average sentence length (25%).
SentenceLengthScore(avgSentLen) ==
    IF RLe(Num(12), avgSentLen) /\ RLe(avgSentLen, Num(22)) THEN Num(100)
    ELSE IF RLt(avgSentLen, Num(12)) THEN RAdd(Num(60), RMul(avgSentLen, Frac(33, 10)))
    ELSE RMax(Num(0), RSub(Num(100), RMul(RSub(avgSentLen, Num(22)), Num(4))))

\* Paragraph length distribution (20%).
ParagraphScore(paragraphs) ==
    IF Len(paragraphs) = 0 THEN Num(0)
    ELSE LET paraWordCounts == [i \in 1..Len(paragraphs) |-> paragraphs[i].words]
             avgParaLen == Frac(SumSeq(paraWordCounts), Len(paraWordCounts))
             longParas ==
                 Cardinality({i \in 1..Len(paraWordCounts) : paraWordCounts[i] > 150})
             base ==
                 IF RLe(Num(30), avgParaLen) /\ RLe(avgParaLen, Num(120)) THEN Num(100)
                 ELSE IF RLt(avgParaLen, Num(30)) THEN Num(60)
                 ELSE RMax(Num(20), RSub(Num(100), RSub(avgParaLen, Num(120))))
         IN  IF longParas > 0 THEN RMax(Num(0), RSub(base, Num(longParas * 10)))
             ELSE base

\* Jargon density (25%).
JargonScore(jargon) ==
    IF RLe(jargon, Frac(5, 10)) THEN Num(100)
    ELSE IF RLe(jargon, Num(2))
        THEN RSub(Num(80), RMul(RSub(jargon, Frac(5, 10)), Num(20)))
    ELSE RMax(Num(0), RSub(Num(50), RMul(RSub(jargon, Num(2)), Num(16))))

\* The least number of characters of text an analyzer scores.
MinTextLength == 50

\* analyzeContentClarity with the early return for an empty text only.
AnalyzeContentClarityEmptyOnly(pg) ==
    LET fullText == JoinedParagraphs(pg)
        fkScore == FleschKincaidReadingEase(fullText)
        avgSentLen == AverageSentenceLength(fullText)
        jargon == JargonDensity(fullText)
        longParas ==
            Cardinality({i \in 1..Len(pg.paragraphs) : pg.paragraphs[i].words > 150})
        totalScore ==
            RRound(Weighted(Weights.content_clarity,
                            <<ReadabilityScore(fkScore), SentenceLengthScore(avgSentLen),
                              ParagraphScore(pg.paragraphs), JargonScore(jargon)>>))
        issues ==
            Count(RLt(fkScore, Num(40))) + Count(RLt(Num(25), avgSentLen))
            + Count(Len(pg.paragraphs) = 0) + Count(longParas > 0)
            + Count(RLt(Num(2), jargon))
        items ==
            PushIf(RLt(fkScore, Num(40)), "high")
            \o PushIf(RLt(Num(25), avgSentLen), "medium")
            \o PushIf(longParas > 0, "low")
            \o PushIf(RLt(Num(2), jargon), "medium")
    IN  IF fullText.chars = 0
        THEN [score |-> Num(0), issues |-> 1, items |-> <<"high">>]
        ELSE AnalyzerResult(totalScore, issues, items)

\* analyzeContentClarity(page)
AnalyzeContentClarityOf(pg) ==
    LET fullText == JoinedParagraphs(pg)
        fkScore == FleschKincaidReadingEase(fullText)
        avgSentLen == AverageSentenceLength(fullText)
        jargon == JargonDensity(fullText)
        longParas ==
            Cardinality({i \in 1..Len(pg.paragraphs) : pg.paragraphs[i].words > 150})
        totalScore ==
            RRound(Weighted(Weights.content_clarity,
                            <<ReadabilityScore(fkScore), SentenceLengthScore(avgSentLen),
                              ParagraphScore(pg.paragraphs), JargonScore(jargon)>>))
        issues ==
            Count(RLt(fkScore, Num(40))) + Count(RLt(Num(25), avgSentLen))
            + Count(Len(pg.paragraphs) = 0) + Count(longParas > 0)
            + Count(RLt(Num(2), jargon))
        items ==
            PushIf(RLt(fkScore, Num(40)), "high")
            \o PushIf(RLt(Num(25), avgSentLen), "medium")
            \o PushIf(longParas > 0, "low")
            \o PushIf(RLt(Num(2), jargon), "medium")
    IN  IF fullText.chars < MinTextLength
        THEN [score |-> Num(0), issues |-> 1, items |-> <<"high">>]
        ELSE AnalyzerResult(totalScore, issues, items)

(***************************************************************************)
(* analyzeCitationMarkers (citation-markers.analyzer.ts).                  *)
(***************************************************************************)
\* Date metadata (25%).
DateScore(pg) ==
    LET jsonLdDates ==
            \E i \in 1..Len(pg.jsonLd) : pg.jsonLd[i].date \/ pg.jsonLd[i].graphDate
        dateIndicators ==
            Cardinality({"article:published_time", "date", "dcterms.date",
                         "dcterms.modified", "dcterms.created"} \cap pg.metaTags)
            + Cardinality({"article:published_time", "article:modified_time"}
                          \cap pg.openGraph)
    IN  IF dateIndicators > 0 \/ jsonLdDates THEN 100
        ELSE IF pg.hasVisibleDate THEN 50
        ELSE 0

\* Author attribution (20%).
CitationAuthorScore(pg) ==
    LET hasAuthorMeta == "author" \in pg.metaTags
        hasAuthorSchema ==
            \E i \in 1..Len(pg.jsonLd) : pg.jsonLd[i].author \/ pg.jsonLd[i].graphAuthor
    IN  IF hasAuthorMeta /\ hasAuthorSchema THEN 100
        ELSE IF hasAuthorMeta \/ hasAuthorSchema THEN 70
        ELSE IF pg.hasByline THEN 30
        ELSE 0

\* The external links, and those of them with meaningful text.
ExternalLinks(links) == {i \in 1..Len(links) : links[i].isExternal}

MeaningfulLinks(links) == {i \in ExternalLinks(links) : links[i].meaningful}

\* meaningfulLinks.length >= externalLinks.length * 0.6
MostlyMeaningful(links) ==
    Cardinality(MeaningfulLinks(links)) * 10 >= Cardinality(ExternalLinks(links)) * 6

\* External link quality (20%).
ExternalLinkScore(links) ==
    IF Cardinality(ExternalLinks(links)) >= 3
    THEN (IF MostlyMeaningful(links) THEN 100 ELSE 80)
    ELSE IF Cardinality(ExternalLinks(links)) > 0 THEN 40
    ELSE 0

\* Source references (20%).
SourceRefScore(pg) ==
    IF \E i \in 1..Len(pg.headings) : pg.headings[i].isRef THEN 100
    ELSE IF pg.hasInlineCitations THEN 60
    ELSE 20

\* Inline citations / footnotes (15%).
FootnoteScore(pg) ==
    IF pg.hasInlineCitations /\ pg.hasFootnotePatterns THEN 100
    ELSE IF pg.hasInlineCitations THEN 60
    ELSE 20

\* analyzeCitationMarkers(page)
AnalyzeCitationMarkersOf(pg) ==
    LET dateScore == DateScore(pg)
        authorScore == CitationAuthorScore(pg)
        externals == Cardinality(ExternalLinks(pg.links))
        totalScore ==
            RRound(Weighted(Weights.citation_markers,
                            <<Num(dateScore), Num(authorScore),
                              Num(ExternalLinkScore(pg.links)),
                              Num(SourceRefScore(pg)), Num(FootnoteScore(pg))>>))
        issues == Count(dateScore = 0) + Count(authorScore = 0) + Count(externals = 0)
        items ==
            PushIf(dateScore = 50, "medium") \o PushIf(dateScore = 0, "high")
            \o PushIf(authorScore = 0, "medium")
            \o PushIf(externals >= 3 /\ ~MostlyMeaningful(pg.links), "low")
    IN  AnalyzerResult(totalScore, issues, items)

(***************************************************************************)
(* analyzeFactualDensity (factual-density.analyzer.ts).                    *)
(***************************************************************************)
\* Content-to-navigation ratio (30%); totalTextLength is at least 50 here.
ContentNavScore(pg) ==
    LET contentRatio == Frac(pg.mainTextLength, pg.totalTextLength)
    IN  IF RLe(Frac(6, 10), contentRatio) THEN Num(100)
        ELSE IF RLe(Frac(4, 10), contentRatio)
            THEN RAdd(Num(60), RMul(RSub(contentRatio, Frac(4, 10)), Num(200)))
        ELSE RRound(RMul(contentRatio, Num(150)))

\* Matches per 100 words, to two decimals; 0 when there are no words.
Per100(count, words) ==
    IF words > 0 THEN RRoundTo(Frac(count * 100, words), 100) ELSE Num(0)

\* Text-to-fluff ratio (25%).
FluffScore(fluffPer100) ==
    IF RLe(fluffPer100, Num(1)) THEN Num(100)
    ELSE IF RLe(fluffPer100, Num(3)) THEN Num(70)
    ELSE RMax(Num(0), RSub(Num(50), RMul(RSub(fluffPer100, Num(3)), Num(10))))

\* Information density (25%).
InfoDensityScore(factsPer100) ==
    IF RLe(Num(3), factsPer100) THEN Num(100)
    ELSE IF RLe(Num(1), factsPer100) THEN RAdd(Num(50), RMul(factsPer100, Num(25)))
    ELSE RRound(RMul(factsPer100, Num(50)))

\* 1 - uniqueParagraphs.size / page.paragraphs.length > 0.2
ManyDuplicates(paragraphs) ==
    LET unique == Cardinality({paragraphs[i].text : i \in 1..Len(paragraphs)})
    IN  Len(paragraphs) > 0 /\ (Len(paragraphs) - unique) * 10 > 2 * Len(paragraphs)

\* Boilerplate detection (20%).
BoilerplateScore(pg) ==
    IF pg.boilerplateCount > 5 \/ ManyDuplicates(pg.paragraphs) THEN 30
    ELSE IF pg.boilerplateCount > 2 THEN 60
    ELSE 100

\* analyzeFactualDensity(page)
AnalyzeFactualDensityOf(pg) ==
    LET words == JoinedParagraphs(pg).words
        lowRatio == RLt(Frac(pg.mainTextLength, pg.totalTextLength), Frac(4, 10))
        fluffPer100 == Per100(pg.paragraphText.fluff, words)
        factsPer100 == Per100(pg.paragraphText.numbers + pg.paragraphText.dates, words)
        boilerplateScore == BoilerplateScore(pg)
        totalScore ==
            RRound(Weighted(Weights.factual_density,
                            <<ContentNavScore(pg), FluffScore(fluffPer100),
                              InfoDensityScore(factsPer100), Num(boilerplateScore)>>))
        issues ==
            Count(lowRatio) + Count(RLt(Num(3), fluffPer100)) + Count(boilerplateScore = 30)
        items ==
            PushIf(lowRatio, "high") \o PushIf(RLt(Num(3), fluffPer100), "low")
            \o PushIf(boilerplateScore = 30, "medium")
    IN  IF pg.totalTextLength < MinTextLength
        THEN [score |-> Num(0), issues |-> 1, items |-> <<"high">>]
        ELSE AnalyzerResult(totalScore, issues, items)

(***************************************************************************)
(* HeuristicsService.run(page): the five analyzers in the order of the     *)
(* code, each a step that stores its result.  The pages are drawn from     *)
(* families that each vary the fields one analyzer reads, over a page      *)
(* with nothing in it.                                                     *)
(***************************************************************************)
Analyzers ==
    <<"semantic_html", "structured_data", "content_clarity", "citation_markers",
      "factual_density">>

NoResults == [a \in Range(Analyzers) |-> Null]

\* The pages analysed: the fields of a ParsedPage that the analyzers read.
Pages ==
    LET
        NoText == [sentences |-> 0, syllables |-> 0, jargon |-> 0, fluff |-> 0,
                   numbers |-> 0, dates |-> 0]

        \* The page of an empty document.
        EmptyPage ==
            [headings |-> <<>>, landmarks |-> <<>>, semanticElements |-> <<0, 0>>,
             divCount |-> 0, lists |-> <<>>, tables |-> <<>>, jsonLd |-> <<>>,
             microdata |-> <<>>, ogKeys |-> {}, openGraph |-> {}, metaTags |-> {},
             links |-> <<>>, paragraphs |-> <<>>, paragraphText |-> NoText,
             hasVisibleDate |-> FALSE, hasByline |-> FALSE, hasInlineCitations |-> FALSE,
             hasFootnotePatterns |-> FALSE, boilerplateCount |-> 0,
             mainTextLength |-> 0, totalTextLength |-> 0]

        Heading(level, isRef) == [level |-> level, isRef |-> isRef]

        Landmark(tag, role) == [tag |-> tag, role |-> role]

        Table(hasHead, hasBody, hasScopeHeaders) ==
            [hasHead |-> hasHead, hasBody |-> hasBody, hasScopeHeaders |-> hasScopeHeaders]

        \* Pages for analyzeSemanticHTML.  semanticElements and divCount are drawn
        \* together.
        SemanticPages ==
            LET headingLists ==
                    {<<>>, <<Heading(1, FALSE)>>, <<Heading(2, FALSE), Heading(3, FALSE)>>,
                     <<Heading(1, FALSE), Heading(1, FALSE)>>,
                     <<Heading(1, FALSE), Heading(3, FALSE)>>,
                     <<Heading(1, FALSE), Heading(2, FALSE), Heading(3, TRUE)>>}
                landmarkLists ==
                    {<<>>, <<Landmark("nav", "")>>, <<Landmark("main", "")>>,
                     <<Landmark("div", "navigation")>>,
                     <<Landmark("header", ""), Landmark("nav", ""), Landmark("main", ""),
                       Landmark("footer", "")>>}
                containerCounts ==
                    {[semanticElements |-> <<0, 0>>, divCount |-> 0],
                     [semanticElements |-> <<0, 0>>, divCount |-> 8],
                     [semanticElements |-> <<1, 0>>, divCount |-> 10],
                     [semanticElements |-> <<3, 2>>, divCount |-> 5]}
                listLists ==
                    {<<>>, <<[tag |-> "ul", itemCount |-> 2]>>,
                     <<[tag |-> "dl", itemCount |-> 1], [tag |-> "ol", itemCount |-> 5]>>}
                tableLists ==
                    {<<>>, <<Table(FALSE, FALSE, FALSE)>>, <<Table(TRUE, TRUE, TRUE)>>,
                     <<Table(TRUE, TRUE, TRUE), Table(FALSE, TRUE, FALSE),
                       Table(FALSE, FALSE, FALSE)>>}
            IN  {[EmptyPage EXCEPT !.headings = h, !.landmarks = l,
                                   !.semanticElements = c.semanticElements,
                                   !.divCount = c.divCount, !.lists = ls, !.tables = t] :
                    h \in headingLists, l \in landmarkLists, c \in containerCounts,
                    ls \in listLists, t \in tableLists}

        JsonLd(type, marks) ==
            [type |-> type, graphBreadcrumb |-> "graphBreadcrumb" \in marks,
             author |-> "author" \in marks, creator |-> "creator" \in marks,
             graphAuthor |-> "graphAuthor" \in marks, date |-> "date" \in marks,
             graphDate |-> "graphDate" \in marks]

        \* The OpenGraph properties present, and those of them with a value.
        OpenGraphs ==
            LET dated == EssentialOg \cup {"article:published_time", "article:modified_time"}
            IN  {[ogKeys |-> {}, openGraph |-> {}],
                 [ogKeys |-> {"og:title"}, openGraph |-> {"og:title"}],
                 [ogKeys |-> {"og:title", "og:description", "og:type"},
                  openGraph |-> {"og:title"}],
                 [ogKeys |-> dated, openGraph |-> dated]}

        \* Pages for analyzeStructuredData.
        StructuredPages ==
            LET jsonLdLists ==
                    {<<>>, <<JsonLd("", {})>>, <<JsonLd("WebPage", {"author", "date"})>>,
                     <<JsonLd("BreadcrumbList", {}), JsonLd("Article", {"creator"})>>,
                     <<JsonLd("", {"graphBreadcrumb", "graphAuthor", "graphDate"})>>}
                microdataLists == {<<>>, <<[breadcrumb |-> FALSE]>>, <<[breadcrumb |-> TRUE]>>}
                metaTagSets ==
                    {{}, {"author"}, {"description", "dcterms.date"},
                     {"author", "description", "article:published_time"}}
            IN  {[EmptyPage EXCEPT !.jsonLd = j, !.microdata = m, !.ogKeys = o.ogKeys,
                                   !.openGraph = o.openGraph, !.metaTags = mt,
                                   !.landmarks = l] :
                    j \in jsonLdLists, m \in microdataLists, o \in OpenGraphs,
                    mt \in metaTagSets,
                    l \in {<<>>, <<Landmark("nav", "")>>, <<Landmark("div", "navigation")>>}}

        Paragraph(chars, words, text) == [chars |-> chars, words |-> words, text |-> text]

        \* Pages for analyzeContentClarity.  The counts of a text go with its
        \* paragraphs: it has a sentence when it has a paragraph, every word has a
        \* syllable, and the jargon patterns match no more often than there are words.
        ClarityPages ==
            LET paragraphLists ==
                    {<<>>, <<Paragraph(20, 4, "short")>>,
                     <<Paragraph(20, 4, "short"), Paragraph(20, 4, "short")>>,
                     <<Paragraph(40, 8, "forty")>>,
                     <<Paragraph(24, 5, "short"), Paragraph(24, 5, "short")>>,
                     <<Paragraph(50, 10, "fifty")>>,
                     <<Paragraph(60, 0, "digits")>>, <<Paragraph(300, 50, "mid")>>,
                     <<Paragraph(300, 50, "mid"), Paragraph(300, 50, "mid")>>,
                     <<Paragraph(300, 50, "mid"), Paragraph(1200, 200, "long")>>,
                     <<Paragraph(1200, 200, "long"), Paragraph(1300, 210, "longer"),
                       Paragraph(1400, 220, "longest")>>}
                wordsOf(ps) == SumSeq([i \in 1..Len(ps) |-> ps[i].words])
                textCounts(ps) ==
                    IF ps = <<>> THEN {NoText}
                    ELSE {[NoText EXCEPT !.sentences = s, !.syllables = k * wordsOf(ps),
                                         !.jargon = j] :
                            s \in {1, 3, 40}, k \in {1, 2, 3},
                            j \in {x \in {0, 1, 5} : x <= wordsOf(ps)}}
            IN  {[EmptyPage EXCEPT !.paragraphs = pc[1], !.paragraphText = pc[2]] :
                    pc \in UNION {{<<ps, c>> : c \in textCounts(ps)} : ps \in paragraphLists}}

        \* Pages for analyzeCitationMarkers.
        CitationPages ==
            LET linkLists ==
                    {<<>>, <<[isExternal |-> FALSE, meaningful |-> TRUE]>>,
                     <<[isExternal |-> TRUE, meaningful |-> TRUE]>>,
                     <<[isExternal |-> TRUE, meaningful |-> TRUE],
                       [isExternal |-> TRUE, meaningful |-> FALSE],
                       [isExternal |-> TRUE, meaningful |-> FALSE]>>,
                     <<[isExternal |-> TRUE, meaningful |-> TRUE],
                       [isExternal |-> TRUE, meaningful |-> TRUE],
                       [isExternal |-> FALSE, meaningful |-> FALSE],
                       [isExternal |-> TRUE, meaningful |-> FALSE]>>}
            IN  {[EmptyPage EXCEPT !.metaTags = mt, !.openGraph = o.openGraph,
                                   !.ogKeys = o.ogKeys, !.jsonLd = j, !.hasVisibleDate = v,
                                   !.hasByline = b, !.links = l, !.headings = h,
                                   !.hasInlineCitations = ic, !.hasFootnotePatterns = fp] :
                    mt \in {{}, {"author"}, {"description", "dcterms.date"}},
                    o \in {x \in OpenGraphs : x.ogKeys = x.openGraph},
                    j \in {<<>>, <<JsonLd("WebPage", {"author", "date"})>>,
                           <<JsonLd("", {"graphAuthor"})>>},
                    v \in BOOLEAN, b \in BOOLEAN, l \in linkLists,
                    h \in {<<>>, <<Heading(1, FALSE), Heading(2, FALSE), Heading(3, TRUE)>>},
                    ic \in BOOLEAN, fp \in BOOLEAN}

        \* Pages for analyzeFactualDensity.  mainTextLength is a difference, or a sum
        \* over nested elements, in parseHTML: it can be negative, and larger than
        \* totalTextLength.
        FactualPages ==
            LET mainTextLengths == {0 - 100, 0, 25, 50, 300}
                totalTextLengths == {0, 49, 50, 100}
                factualTexts ==
                    {[NoText EXCEPT !.sentences = 3, !.syllables = 100, !.fluff = f,
                                    !.numbers = n, !.dates = d] :
                        f \in {0, 1, 5}, n \in {0, 1, 20}, d \in {0, 1}}
            IN  {[EmptyPage EXCEPT !.mainTextLength = m, !.totalTextLength = t,
                                   !.paragraphs = pc[1], !.paragraphText = pc[2],
                                   !.boilerplateCount = bc] :
                    m \in mainTextLengths, t \in totalTextLengths,
                    pc \in ({<<>>} \X {NoText})
                           \cup ({<<Paragraph(240, 40, "mid")>>, <<Paragraph(300, 50, "mid")>>,
                                  <<Paragraph(300, 50, "mid"), Paragraph(300, 50, "mid")>>}
                                 \X {x \in factualTexts : x.dates <= x.numbers}),
                    bc \in {0, 3, 6}}
    IN  SemanticPages \cup StructuredPages \cup ClarityPages \cup CitationPages
        \cup FactualPages

AnaInit ==
    /\ anaPc = 1
    /\ page \in Pages
    /\ analyzed = NoResults
    /\ heuristics = Null

\* One analyzer of run(page), applied to the page.
Analyze(name, pg) ==
    CASE name = "semantic_html" -> AnalyzeSemanticHTMLOf(pg)
      [] name = "structured_data" -> AnalyzeStructuredDataOf(pg)
      [] name = "content_clarity" -> AnalyzeContentClarityOf(pg)
      [] name = "citation_markers" -> AnalyzeCitationMarkersOf(pg)
      [] name = "factual_density" -> AnalyzeFactualDensityOf(pg)

\* The step of run(page) at position pos of Analyzers.
RunAnalyzer(pos) ==
    /\ anaPc = pos
    /\ analyzed' = [analyzed EXCEPT ![Analyzers[pos]] = Analyze(Analyzers[pos], page)]
    /\ anaPc' = pos + 1
    /\ UNCHANGED <<page, heuristics>>
    /\ UNCHANGED <<simVars, cluVars, evalVars, pipeVars, cosVars, batVars>>

(***************************************************************************)
(* The rest of HeuristicsService.run: the overall score and the sorted     *)
(* list of actionable items.                                               *)
(***************************************************************************)
\* Math.round of the sum of the five scores divided by 5, rounded down
\* instead.
HeuristicsOverallFloor(results) ==
    LET sum == SumSeq([i \in 1..Len(Analyzers) |-> results[Analyzers[i]].score[1]])
    IN  Num(sum \div 5)

\* overall = Math.round((semantic + structured + clarity + citations
\* + density) / 5)
HeuristicsOverall(results) ==
    LET Sum[i \in 0..Len(Analyzers)] ==
            IF i = 0 THEN Num(0) ELSE RAdd(Sum[i - 1], results[Analyzers[i]].score)
    IN  RRound(RMul(Sum[Len(Analyzers)], Frac(1, 5)))

\* The actionable items of one analyzer: its priorities, each with the
\* analyzer it came from and its place in that analyzer's list.
ItemsOf(results, name) ==
    [i \in 1..Len(results[name].items) |->
        [priority |-> results[name].items[i], category |-> name, n |-> i]]

\* allActions before the sort: the spread of the five lists, in order.
AllActions(results) ==
    ItemsOf(results, "semantic_html") \o ItemsOf(results, "structured_data")
    \o ItemsOf(results, "content_clarity") \o ItemsOf(results, "citation_markers")
    \o ItemsOf(results, "factual_density")

\* priorityOrder
PriorityOrder == [high |-> 0, medium |-> 1, low |-> 2]

\* A sort by priority that puts an item before the earlier items of its
\* priority.
RECURSIVE SortByPriorityUnstable(_)
SortByPriorityUnstable(items) ==
    IF items = <<>> THEN <<>>
    ELSE LET rest == SortByPriorityUnstable(SubSeq(items, 1, Len(items) - 1))
             item == items[Len(items)]
             before ==
                 SelectSeq(rest, LAMBDA x :
                     PriorityOrder[x.priority] < PriorityOrder[item.priority])
             after ==
                 SelectSeq(rest, LAMBDA x :
                     PriorityOrder[x.priority] >= PriorityOrder[item.priority])
         IN  before \o <<item>> \o after

\* allActions.sort((a, b) => priorityOrder[a.priority] -
\* priorityOrder[b.priority]): Array.prototype.sort is stable, so each item
\* goes behind the earlier items that do not compare greater.
RECURSIVE SortByPriority(_)
SortByPriority(items) ==
    IF items = <<>> THEN <<>>
    ELSE LET rest == SortByPriority(SubSeq(items, 1, Len(items) - 1))
             item == items[Len(items)]
             before ==
                 SelectSeq(rest, LAMBDA x :
                     PriorityOrder[x.priority] - PriorityOrder[item.priority] <= 0)
             after ==
                 SelectSeq(rest, LAMBDA x :
                     PriorityOrder[x.priority] - PriorityOrder[item.priority] > 0)
         IN  before \o <<item>> \o after

\* The value run(page) returns.
HeuristicsOutput(results) ==
    [result |->
        [semantic_html |-> results["semantic_html"].score,
         structured_data |-> results["structured_data"].score,
         content_clarity |-> results["content_clarity"].score,
         citation_markers |-> results["citation_markers"].score,
         factual_density |-> results["factual_density"].score,
         overall |-> HeuristicsOverall(results)],
     actionableItems |-> SortByPriority(AllActions(results))]

\* The end of run(page), after the five analyzers.
Aggregate ==
    /\ anaPc = Len(Analyzers) + 1
    /\ heuristics' = HeuristicsOutput(analyzed)
    /\ anaPc' = anaPc + 1
    /\ UNCHANGED <<page, analyzed>>
    /\ UNCHANGED <<simVars, cluVars, evalVars, pipeVars, cosVars, batVars>>

\* run(page) at its aggregation, with five analyzer results of any scores.
AggInit ==
    /\ anaPc = Len(Analyzers) + 1
    /\ page = Null
    /\ analyzed \in [Range(Analyzers) ->
                        {[score |-> Num(n), issues |-> 0, items |-> <<>>] :
                            n \in {0, 1, 50, 60, 70, 80, 90, 100}}]
    /\ heuristics = Null

(***************************************************************************)
(* EmbeddingService (apps/api/src/simitrack/services/embedding.service.ts) *)
(* and the pipeline of ContentSimilarityService.analyzeUrls                *)
(* (apps/api/src/simitrack/simitrack.module.ts).                           *)
(*                                                                         *)
(* A text is held by what matters of it: whether it is empty, and what the *)
(* embedding provider does with it (ok and the vector, or a failure).      *)
(* Vectors have integer components and a norm that is an integer, so that  *)
(* Math.sqrt is exact and a cosine is an exact rational.                   *)
(***************************************************************************)
\* cosineSimilarity without the division: the dot product.
CosineSimilarityUnnormalised(a, b) ==
    IF Len(a) = 0 \/ Len(b) = 0 \/ Len(a) # Len(b) THEN Num(0)
    ELSE Num(SumSeq([i \in 1..Len(a) |-> a[i] * b[i]]))

\* cosineSimilarity without the test of the denominator: 0 / 0, held as
\* <<0, 0>>, when a vector is all zeros.
CosineSimilarityUnguarded(a, b) ==
    IF Len(a) = 0 \/ Len(b) = 0 \/ Len(a) # Len(b) THEN Num(0)
    ELSE LET dotProduct == SumSeq([i \in 1..Len(a) |-> a[i] * b[i]])
             normA == SumSeq([i \in 1..Len(a) |-> a[i] * a[i]])
             normB == SumSeq([i \in 1..Len(a) |-> b[i] * b[i]])
             Sqrt(n) == CHOOSE r \in 0..n : r * r = n
             denominator == Sqrt(normA) * Sqrt(normB)
         IN  IF denominator = 0 THEN <<0, 0>> ELSE Frac(dotProduct, denominator)

\* cosineSimilarity(a, b)
CosineSimilarity(a, b) ==
    IF Len(a) = 0 \/ Len(b) = 0 \/ Len(a) # Len(b) THEN Num(0)
    ELSE LET dotProduct == SumSeq([i \in 1..Len(a) |-> a[i] * b[i]])
             normA == SumSeq([i \in 1..Len(a) |-> a[i] * a[i]])
             normB == SumSeq([i \in 1..Len(a) |-> b[i] * b[i]])
             Sqrt(n) == CHOOSE r \in 0..n : r * r = n
             denominator == Sqrt(normA) * Sqrt(normB)
         IN  IF denominator = 0 THEN Num(0) ELSE Frac(dotProduct, denominator)

\* getEmbedding(text): [] for an empty text and for a failed call.
GetEmbedding(text) ==
    IF text.empty THEN <<>>
    ELSE IF text.ok THEN text.vector
    ELSE <<>>

\* const CONCURRENCY = 10
Concurrency == 10

\* Every URL from start on: a batch that is not cut to CONCURRENCY.
BatchUncut(start, n) == start..n

\* The places of urls.slice(i, i + CONCURRENCY), for start = i + 1 and
\* n = urls.length.
Batch(start, n) == start..Min2(start + Concurrency - 1, n)

EmptyText == [empty |-> TRUE, ok |-> FALSE, vector |-> <<>>]

\* fetchPageContent(url), for the reply of the provider to the request: the
\* value the promise is fulfilled with, or [thrown |-> message] when it is
\* rejected.  getGeminiClient() is called before the try block.
FetchPageContent(url, key, reply) ==
    IF ~key THEN [thrown |-> "GEMINI_API_KEY is not configured"]
    ELSE IF reply.kind # "page"
    THEN [url |-> url, title |-> EmptyText, intro_text |-> EmptyText,
          body_text |-> EmptyText, full |-> EmptyText, fetchError |-> Some(reply.kind)]
    ELSE [url |-> url, title |-> reply.title, intro_text |-> reply.intro_text,
          body_text |-> reply.body_text, full |-> reply.full, fetchError |-> Null]

\* calculateSimilarityMatrix with the inner loop from 0: a score for every
\* ordered pair of two valid pages.
CalculateSimilarityMatrixBothOrders(pages) ==
    LET valid == SelectSeq(pages, LAMBDA p : p.embeddings # Null /\ p.fetchError = Null)
        n == Len(valid)
        Sim(i, j, facet) ==
            LET c == CosineSimilarity(valid[i].embeddings[facet],
                                      valid[j].embeddings[facet])
            IN  (c[1] * 1000) \div c[2]
        ScoreOf(i, j) ==
            [url_a |-> valid[i].url, url_b |-> valid[j].url,
             title |-> Sim(i, j, "title"), intro |-> Sim(i, j, "intro"),
             body |-> Sim(i, j, "body"), full |-> Sim(i, j, "full")]
        Row[i \in 1..n] == [k \in 1..(n - 1) |-> ScoreOf(i, IF k < i THEN k ELSE k + 1)]
        Rows[i \in 0..n] == IF i = 0 THEN <<>> ELSE Rows[i - 1] \o Row[i]
    IN  Rows[n]

\* calculateSimilarityMatrix(pages): one score per pair i < j of the pages
\* with embeddings and no fetch error, similarities in thousandths.
CalculateSimilarityMatrix(pages) ==
    LET valid == SelectSeq(pages, LAMBDA p : p.embeddings # Null /\ p.fetchError = Null)
        n == Len(valid)
        Sim(i, j, facet) ==
            LET c == CosineSimilarity(valid[i].embeddings[facet],
                                      valid[j].embeddings[facet])
            IN  (c[1] * 1000) \div c[2]
        ScoreOf(i, j) ==
            [url_a |-> valid[i].url, url_b |-> valid[j].url,
             title |-> Sim(i, j, "title"), intro |-> Sim(i, j, "intro"),
             body |-> Sim(i, j, "body"), full |-> Sim(i, j, "full")]
        Row[i \in 1..n] == [k \in 1..(n - i) |-> ScoreOf(i, i + k)]
        Rows[i \in 0..n] == IF i = 0 THEN <<>> ELSE Rows[i - 1] \o Row[i]
    IN  Rows[n]

\* The value analyzeUrls returns, from the fetched pages and the pages with
\* embeddings; failed_urls is Null for undefined.
AnalyzeUrlsResult(pages, pagesWithEmbeddings) ==
    LET failed == SelectSeq(pages, LAMBDA p : p.fetchError # Null)
        failedUrls == [k \in 1..Len(failed) |-> failed[k].url]
        scores == CalculateSimilarityMatrix(pagesWithEmbeddings)
        rels == [k \in 1..Len(scores) |->
                    [url_a |-> scores[k].url_a, url_b |-> scores[k].url_b,
                     classification |-> ClassifyOne(scores[k]).classification,
                     confidence |-> ClassifyOne(scores[k]).confidence,
                     summary |-> ClassifyOne(scores[k]).summary]]
    IN  [relationships |-> rels,
         intent_collision_clusters |-> IdentifyIntentClusters(rels),
         pages_analyzed |-> Len(pages) - Len(failedUrls),
         pages_failed |-> Len(failedUrls),
         failed_urls |-> IF Len(failedUrls) > 0 THEN Some(failedUrls) ELSE Null]

Facets == {"title", "intro", "body", "full"}

\* No analyzeUrls is running.
PipeIdle ==
    /\ pipePc = "off"
    /\ urls = <<>>
    /\ geminiKey = FALSE
    /\ world = <<>>
    /\ batchStart = 1
    /\ fetched = <<>>
    /\ fetchResults = <<>>
    /\ fetchCount = <<>>
    /\ withEmbeddings = <<>>
    /\ embedCount = <<>>
    /\ simiResult = Null

\* No cosineSimilarity is computed.
CosIdle ==
    /\ vecA = <<>>
    /\ vecB = <<>>
    /\ cosine = Null

\* The most URLs of one analyzeUrls.
MaxUrls == 12

\* What the provider does with the request of fetchPageContent: it fails,
\* its reply is no JSON, its reply is the JSON null, or its reply is a page.
\* The texts of a page are embedded to vectors of norm 5, are empty, or
\* fail to embed; fullText is empty when every text of the page is.
Replies ==
    LET Embedded(v) == [empty |-> FALSE, ok |-> TRUE, vector |-> v]
        Failing == [empty |-> FALSE, ok |-> FALSE, vector |-> <<>>]
        PageOf(t, i, b, f) ==
            [kind |-> "page", title |-> t, intro_text |-> i, body_text |-> b, full |-> f]
        Same(v) == PageOf(Embedded(v), Embedded(v), Embedded(v), Embedded(v))
    IN  {[kind |-> "provider_error"], [kind |-> "bad_json"], [kind |-> "null_reply"],
         Same(<<3, 4>>), Same(<<4, 3>>), Same(<<-3, -4>>),
         PageOf(Embedded(<<0, 5>>), Embedded(<<5, 0>>), Embedded(<<-4, 3>>),
                Embedded(<<3, 4>>)),
         PageOf(EmptyText, Embedded(<<3, 4>>), Failing, Embedded(<<5, 0>>)),
         PageOf(EmptyText, EmptyText, EmptyText, EmptyText)}

\* analyzeUrls(urls) is called: few URLs with every reply (a URL may be given
\* twice), or more URLs than one batch holds with few replies.
PipeInit ==
    /\ pipePc = "batch"
    /\ geminiKey \in BOOLEAN
    /\ \E us \in {<<"a", "b">>, <<"a", "b", "c">>, <<"a", "b", "a">>}
                 \cup {SubSeq(<<"a", "b", "c", "d", "e", "f", "g", "h", "i", "j",
                                "k", "l", "m", "n">>, 1, n) :
                       n \in (MaxUrls - 1)..MaxUrls} :
         /\ urls = us
         /\ IF Len(us) <= 3
            THEN world \in [1..Len(us) -> Replies]
            ELSE \E F \in {{}, {2}, {1, Len(us)}} :
                    world = [k \in 1..Len(us) |->
                                IF k \in F THEN [kind |-> "provider_error"]
                                ELSE CHOOSE r \in Replies :
                                        /\ r.kind = "page"
                                        /\ r.title.vector = <<3, 4>>
                                        /\ r.body_text.vector = <<3, 4>>]
         /\ fetched = [k \in 1..Len(us) |-> Null]
         /\ fetchCount = [k \in 1..Len(us) |-> 0]
         /\ embedCount = [k \in 1..Len(us) |-> [f \in Facets |-> 0]]
    /\ batchStart = 1
    /\ fetchResults = <<>>
    /\ withEmbeddings = <<>>
    /\ simiResult = Null

\* cosineSimilarity is called on two vectors: empty, zero, of two and of
\* three components, each of a norm that is an integer.
CosInit ==
    /\ LET V == {<<>>, <<0, 0>>, <<3, 4>>, <<4, 3>>, <<-3, -4>>, <<0, 5>>, <<-4, 3>>,
                 <<6, 8>>, <<0, 0, 0>>, <<1, 2, 2>>, <<2, -1, 2>>, <<-2, -2, 1>>}
       IN  vecA \in V /\ vecB \in V
    /\ cosine = Null

\* cosineSimilarity(vecA, vecB) is called and returns.
ComputeCosine ==
    /\ cosine = Null
    /\ cosine' = Some(CosineSimilarity(vecA, vecB))
    /\ UNCHANGED <<vecA, vecB>>
    /\ UNCHANGED <<simVars, cluVars, evalVars, anaVars, pipeVars, batVars>>


\* The start of a batch of fetchMultiplePages: every fetchPageContent of the
\* batch is called.  Without the key each call is rejected before it sends a
\* request, so Promise.all rejects and analyzeUrls throws.
StartBatch ==
    /\ pipePc = "batch"
    /\ IF geminiKey
       THEN /\ fetchCount' = [p \in DOMAIN fetchCount |->
                                 IF p \in Batch(batchStart, Len(urls))
                                 THEN fetchCount[p] + 1 ELSE fetchCount[p]]
            /\ pipePc' = "fetching"
            /\ UNCHANGED fetched
       ELSE /\ fetched' = [p \in DOMAIN fetched |->
                              IF p \in Batch(batchStart, Len(urls))
                              THEN FetchPageContent(urls[p], geminiKey, world[p])
                              ELSE fetched[p]]
            /\ pipePc' = "thrown"
            /\ UNCHANGED fetchCount
    /\ UNCHANGED <<urls, geminiKey, world, batchStart, fetchResults, withEmbeddings,
                   embedCount, simiResult>>
    /\ UNCHANGED <<simVars, cluVars, evalVars, anaVars, cosVars, batVars>>

\* The fetches the provider has yet to answer.
InFlight == {p \in DOMAIN fetched : fetchCount[p] > 0 /\ fetched[p] = Null}

\* fetchPageContent with one more request after a reply that failed.
FetchSettleRetry(p) ==
    /\ pipePc = "fetching"
    /\ p \in InFlight
    /\ IF world[p].kind # "page" /\ fetchCount[p] < 2
       THEN /\ fetchCount' = [fetchCount EXCEPT ![p] = fetchCount[p] + 1]
            /\ UNCHANGED fetched
       ELSE /\ fetched' = [fetched EXCEPT
                              ![p] = FetchPageContent(urls[p], geminiKey, world[p])]
            /\ UNCHANGED fetchCount
    /\ UNCHANGED <<pipePc, urls, geminiKey, world, batchStart, fetchResults,
                   withEmbeddings, embedCount, simiResult>>
    /\ UNCHANGED <<simVars, cluVars, evalVars, anaVars, cosVars, batVars>>

\* The provider answers the fetch of urls[p] and fetchPageContent settles.
FetchSettle(p) ==
    /\ pipePc = "fetching"
    /\ p \in InFlight
    /\ fetched' = [fetched EXCEPT ![p] = FetchPageContent(urls[p], geminiKey, world[p])]
    /\ UNCHANGED <<pipePc, urls, geminiKey, world, batchStart, fetchResults, fetchCount,
                   withEmbeddings, embedCount, simiResult>>
    /\ UNCHANGED <<simVars, cluVars, evalVars, anaVars, cosVars, batVars>>

\* Promise.all of the batch resolves: results.push(...batchResults), then
\* the delay before the next batch or the return of fetchMultiplePages.
CollectBatch ==
    /\ pipePc = "fetching"
    /\ InFlight = {}
    /\ LET batch == Batch(batchStart, Len(urls))
       IN  fetchResults' = fetchResults \o [k \in 1..Cardinality(batch) |->
                                     fetched[batchStart + k - 1]]
    /\ pipePc' = IF batchStart + Concurrency <= Len(urls) THEN "delay" ELSE "embedding"
    /\ UNCHANGED <<urls, geminiKey, world, batchStart, fetched, fetchCount,
                   withEmbeddings, embedCount, simiResult>>
    /\ UNCHANGED <<simVars, cluVars, evalVars, anaVars, cosVars, batVars>>

\* The 500 ms between two batches have passed: i += CONCURRENCY.
DelayElapsed ==
    /\ pipePc = "delay"
    /\ batchStart' = batchStart + Concurrency
    /\ pipePc' = "batch"
    /\ UNCHANGED <<urls, geminiKey, world, fetched, fetchResults, fetchCount,
                   withEmbeddings, embedCount, simiResult>>
    /\ UNCHANGED <<simVars, cluVars, evalVars, anaVars, cosVars, batVars>>

\* One turn of the loop of generateEmbeddings: a page with a fetch error is
\* passed on; else its four texts are embedded, each by one call, and the
\* page is pushed with the vectors.  A request is sent for a text that is
\* not empty.
EmbedPage ==
    /\ pipePc = "embedding"
    /\ Len(withEmbeddings) < Len(fetchResults)
    /\ LET k == Len(withEmbeddings) + 1
           pg == fetchResults[k]
           texts == [title |-> pg.title, intro |-> pg.intro_text,
                     body |-> pg.body_text, full |-> pg.full]
       IN  IF pg.fetchError # Null
           THEN /\ withEmbeddings' = Append(withEmbeddings, [embeddings |-> Null] @@ pg)
                /\ UNCHANGED embedCount
           ELSE /\ withEmbeddings' =
                       Append(withEmbeddings,
                              [embeddings |-> [f \in Facets |-> GetEmbedding(texts[f])]]
                              @@ pg)
                /\ embedCount' =
                       [embedCount EXCEPT ![k] =
                           [f \in Facets |->
                               embedCount[k][f] + (IF texts[f].empty THEN 0 ELSE 1)]]
    /\ UNCHANGED <<pipePc, urls, geminiKey, world, batchStart, fetched, fetchResults,
                   fetchCount, simiResult>>
    /\ UNCHANGED <<simVars, cluVars, evalVars, anaVars, cosVars, batVars>>

\* The rest of analyzeUrls: the matrix, the classification, the clusters and
\* the result.
FinishAnalyze ==
    /\ pipePc = "embedding"
    /\ Len(withEmbeddings) = Len(fetchResults)
    /\ simiResult' = AnalyzeUrlsResult(fetchResults, withEmbeddings)
    /\ pipePc' = "done"
    /\ UNCHANGED <<urls, geminiKey, world, batchStart, fetched, fetchResults, fetchCount,
                   withEmbeddings, embedCount>>
    /\ UNCHANGED <<simVars, cluVars, evalVars, anaVars, cosVars, batVars>>

(***************************************************************************)
(* The batch scheduler (llm-batch).  Every run of runBatch has a frame:    *)
(* where it is suspended, how many calls it makes, how many it has         *)
(* started, how many of them have returned, and the message it returned.   *)
(* The steps between two awaits of a run are one action.                   *)
(***************************************************************************)
\* The providers, in the order of the models array.
BatchModels == <<"claude", "gpt", "gemini">>

\* The most questions of the custom question file.
MaxQuestions == 2

\* The most runs that get past the running check.
MaxRuns == 2

\* A frame that was never entered.
NoFrame == [pc |-> "none", total |-> 0, completed |-> 0, returned |-> 0, message |-> ""]

\* The runs suspended at an await.
ActiveRuns == {r \in DOMAIN frames : frames[r].pc \in {"calling", "delaying"}}

\* The k-th call with the loop over the search modes outside the loop over
\* the models.
CallAtModeBeforeModel(r, k) ==
    [run |-> r,
     question |-> ((k - 1) \div (2 * Len(BatchModels))) + 1,
     model_name |-> BatchModels[((k - 1) % Len(BatchModels)) + 1],
     search_enabled |-> ((k - 1) \div Len(BatchModels)) % 2 = 1]

\* The k-th call of a run, by the three nested loops: questions, then
\* models, then the search mode (false before true).
CallAt(r, k) ==
    [run |-> r,
     question |-> ((k - 1) \div (2 * Len(BatchModels))) + 1,
     model_name |-> BatchModels[(((k - 1) \div 2) % Len(BatchModels)) + 1],
     search_enabled |-> (k - 1) % 2 = 1]

BatchIdle ==
    /\ isRunning = FALSE
    /\ abortRequested = FALSE
    /\ lastRunAt = Null
    /\ configured = {}
    /\ frames = [r \in 1..MaxRuns |-> NoFrame]
    /\ inFlight = {}
    /\ batchLog = <<>>
    /\ csvRows = <<>>
    /\ response = Null

\* The service after construction; any set of providers has its API key.
BatchInit ==
    /\ isRunning = FALSE
    /\ abortRequested = FALSE
    /\ lastRunAt = Null
    /\ configured \in SUBSET Range(BatchModels)
    /\ frames = [r \in 1..MaxRuns |-> NoFrame]
    /\ inFlight = {}
    /\ batchLog = <<>>
    /\ csvRows = <<>>
    /\ response = Null

\* The running check that never refuses.
AlreadyRunningNever == FALSE

\* if (this.isRunning) at the entry of runBatch.
AlreadyRunning == isRunning

\* The exit of runBatch through finally, with the message returned.
ReturnFrom(r, f, message) ==
    /\ frames' = [frames EXCEPT ![r] = [f EXCEPT !.pc = "returned", !.message = message]]
    /\ isRunning' = FALSE

\* The loop with a stopped exit that records the time of the run as well.
IterateStamping(r, f) ==
    IF abortRequested
    THEN /\ ReturnFrom(r, f, "Batch stopped")
         /\ lastRunAt' = Some(r)
         /\ UNCHANGED <<inFlight, batchLog>>
    ELSE /\ frames' = [frames EXCEPT ![r] = [f EXCEPT !.pc = "calling", !.completed = @ + 1]]
         /\ inFlight' = inFlight \cup {CallAt(r, f.completed + 1)}
         /\ batchLog' = Append(batchLog, CallAt(r, f.completed + 1))
         /\ UNCHANGED <<isRunning, lastRunAt>>

\* The top of an iteration of the innermost loop: the abort check, then the
\* next call is started and awaited.
Iterate(r, f) ==
    IF abortRequested
    THEN /\ ReturnFrom(r, f, "Batch stopped")
         /\ UNCHANGED <<lastRunAt, inFlight, batchLog>>
    ELSE /\ frames' = [frames EXCEPT ![r] = [f EXCEPT !.pc = "calling", !.completed = @ + 1]]
         /\ inFlight' = inFlight \cup {CallAt(r, f.completed + 1)}
         /\ batchLog' = Append(batchLog, CallAt(r, f.completed + 1))
         /\ UNCHANGED <<isRunning, lastRunAt>>

\* What reading the custom question file gives: a number of questions (0
\* when there is no file or it does not parse), or readFileSync throws.
QuestionFiles ==
    {[readable |-> TRUE, questions |-> n] : n \in 0..MaxQuestions}
        \cup {[readable |-> FALSE, questions |-> 0]}

\* runBatch up to its first await.
RunBatch(file) ==
    IF AlreadyRunning
    THEN /\ response' = [started |-> FALSE, message |-> "Batch is already running"]
         /\ UNCHANGED <<isRunning, abortRequested, lastRunAt, configured, frames,
                        inFlight, batchLog, csvRows>>
    ELSE /\ \E r \in DOMAIN frames :
              /\ frames[r].pc = "none"
              /\ \A q \in 1..(r - 1) : frames[q].pc # "none"
              /\ abortRequested' = FALSE
              /\ response' = Null
              /\ IF ~file.readable
                 THEN /\ isRunning' = TRUE
                      /\ frames' = [frames EXCEPT ![r] = [NoFrame EXCEPT !.pc = "thrown"]]
                      /\ UNCHANGED <<lastRunAt, inFlight, batchLog>>
                 ELSE IF file.questions = 0
                 THEN /\ ReturnFrom(r, NoFrame, "Batch complete")
                      /\ lastRunAt' = Some(r)
                      /\ UNCHANGED <<inFlight, batchLog>>
                 ELSE /\ isRunning' = TRUE
                      /\ frames' = [frames EXCEPT ![r] =
                            [NoFrame EXCEPT !.pc = "calling", !.completed = 1,
                                            !.total = file.questions * Len(BatchModels) * 2]]
                      /\ inFlight' = inFlight \cup {CallAt(r, 1)}
                      /\ batchLog' = Append(batchLog, CallAt(r, 1))
                      /\ UNCHANGED lastRunAt
         /\ UNCHANGED <<configured, csvRows>>

\* POST /llm-batch/run.
TriggerRun ==
    /\ \E file \in QuestionFiles : RunBatch(file)
    /\ UNCHANGED <<simVars, cluVars, evalVars, anaVars, pipeVars, cosVars>>

\* The hourly cron: a run when the schedule is enabled and its hour has come.
HandleDailyCron ==
    /\ \E due \in BOOLEAN :
          IF due
          THEN \E file \in QuestionFiles : RunBatch(file)
          ELSE UNCHANGED batVars
    /\ UNCHANGED <<simVars, cluVars, evalVars, anaVars, pipeVars, cosVars>>

\* POST /llm-batch/stop.
StopBatch ==
    /\ IF ~isRunning
       THEN /\ response' = [stopped |-> FALSE, message |-> "No batch is running"]
            /\ UNCHANGED abortRequested
       ELSE /\ abortRequested' = TRUE
            /\ response' = [stopped |-> TRUE, message |-> "Stop requested"]
    /\ UNCHANGED <<isRunning, lastRunAt, configured, frames, inFlight, batchLog, csvRows>>
    /\ UNCHANGED <<simVars, cluVars, evalVars, anaVars, pipeVars, cosVars>>

\* The call in flight of run r returns (a provider without a key returns
\* its error), and its row is appended unless the append throws; then the
\* delay begins, or the loops are over and the run completes.
CallReturns(r, appended) ==
    /\ frames[r].pc = "calling"
    /\ LET call == CallAt(r, frames[r].completed)
           f == [frames[r] EXCEPT !.returned = @ + 1]
           row == [run |-> r, question_id |-> call.question,
                   model_name |-> call.model_name,
                   search_enabled |-> call.search_enabled,
                   error |-> IF call.model_name \in configured THEN ""
                             ELSE "API key is not configured"]
       IN  /\ inFlight' = inFlight \ {call}
           /\ IF ~appended
              THEN /\ ReturnFrom(r, f, "Batch failed")
                   /\ UNCHANGED <<csvRows, lastRunAt>>
              ELSE /\ csvRows' = Append(csvRows, row)
                   /\ IF f.completed < f.total
                      THEN /\ frames' = [frames EXCEPT ![r] = [f EXCEPT !.pc = "delaying"]]
                           /\ UNCHANGED <<isRunning, lastRunAt>>
                      ELSE /\ ReturnFrom(r, f, "Batch complete")
                           /\ lastRunAt' = Some(r)
    /\ response' = Null
    /\ UNCHANGED <<abortRequested, configured, batchLog>>
    /\ UNCHANGED <<simVars, cluVars, evalVars, anaVars, pipeVars, cosVars>>

\* The delay between two calls of run r is over.
BatchDelayElapsed(r) ==
    /\ frames[r].pc = "delaying"
    /\ Iterate(r, frames[r])
    /\ response' = Null
    /\ UNCHANGED <<abortRequested, configured, csvRows>>
    /\ UNCHANGED <<simVars, cluVars, evalVars, anaVars, pipeVars, cosVars>>

(***************************************************************************)
(* Specifications.  Each runs one part of the program; the variables of    *)
(* the other parts stay idle.                                              *)
(***************************************************************************)
AnaIdle ==
    /\ anaPc = 0
    /\ page = Null
    /\ analyzed = Null
    /\ heuristics = Null

\* The state in which one part of the program begins and the others are idle.
Start(part) ==
    /\ IF part = "classify" THEN SimInit ELSE SimIdle
    /\ IF part = "cluster" THEN CluInit ELSE CluIdle
    /\ IF part = "evaluate" THEN EvalInit ELSE EvalIdle
    /\ IF part = "analyzers" THEN AnaInit ELSE IF part = "aggregate" THEN AggInit ELSE AnaIdle
    /\ IF part = "similarity" THEN PipeInit ELSE PipeIdle
    /\ IF part = "cosine" THEN CosInit ELSE CosIdle
    /\ IF part = "batch" THEN BatchInit ELSE BatchIdle

\* classifyRelationships on one similarity score.
SpecClassify == Start("classify") /\ [][ClassifyRelationships]_vars

\* identifyIntentClusters on one relationship list.
SpecCluster == Start("cluster") /\ [][IdentifyClusters]_vars

\* HeuristicsService.run on one page: the five analyzers, then the aggregation.
NextAnalyzers ==
    \/ \E pos \in 1..Len(Analyzers) : RunAnalyzer(pos)
    \/ Aggregate

SpecAnalyzers == Start("analyzers") /\ [][NextAnalyzers]_vars

\* The aggregation of run(page) on five given analyzer results.
SpecAggregate == Start("aggregate") /\ [][Aggregate]_vars

\* ScoringService.evaluate with the three judge calls of LlmService.evaluate.
Init == Start("evaluate")

Next ==
    \/ EvaluateHeuristicsOnly
    \/ EvaluateLlmSkipped
    \/ EvaluateFanOut
    \/ \E k \in Models : CallSettle(k)
    \/ EvaluateFanIn

Spec == Init /\ [][Next]_vars

\* ContentSimilarityService.analyzeUrls on one list of URLs.
NextSimilarity ==
    \/ StartBatch
    \/ \E p \in DOMAIN fetched : FetchSettle(p)
    \/ CollectBatch
    \/ DelayElapsed
    \/ EmbedPage
    \/ FinishAnalyze

SpecSimilarity == Start("similarity") /\ [][NextSimilarity]_vars

\* EmbeddingService.cosineSimilarity on one pair of vectors.
SpecCosine == Start("cosine") /\ [][ComputeCosine]_vars

NextBatch ==
    \/ TriggerRun
    \/ HandleDailyCron
    \/ StopBatch
    \/ \E r \in DOMAIN frames, appended \in BOOLEAN : CallReturns(r, appended)
    \/ \E r \in DOMAIN frames : BatchDelayElapsed(r)

SpecBatch == Start("batch") /\ [][NextBatch]_vars

\* One LlmService.evaluate or one analyzeUrls: the external calls of each.
SpecCalls ==
    (Start("evaluate") \/ Start("similarity")) /\ [][Next \/ NextSimilarity]_vars

(***************************************************************************)
(* Properties of classifyRelationships.                                    *)
(***************************************************************************)
\* The six rules as the specification lists them (4.7), without the "else":
\* rule i holds of s.
RuleHolds(i, s) ==
    CASE i = 1 -> s.body >= 780 /\ s.title >= 750
      [] i = 2 -> s.body >= 700 /\ s.intro >= 650
      [] i = 3 -> s.title >= 700 /\ s.body < 600
      [] i = 4 -> s.title >= 600 /\ 450 <= s.body /\ s.body < 650
      [] i = 5 -> s.full >= 750 /\ s.body < 550
      [] i = 6 -> TRUE

RuleCategory ==
    <<"Definite Duplicate", "Near Duplicate", "Intent Collision",
      "Potential Cannibalization", "Template Overlap", "Unique">>

EarliestRule(s) == CHOOSE i \in 1..6 : RuleHolds(i, s) /\ \A j \in 1..(i - 1) : ~RuleHolds(j, s)

\* C1: classifyRelationships is total and an ordered rule chain: every score
\* gets one of the six categories, namely that of the earliest rule (in the
\* order 1..6) whose condition holds; body 0.80, title 0.76, intro 0.70 is a
\* Definite Duplicate, and so is body exactly 0.78 with title exactly 0.75.
C1_OrderedRuleChain ==
    simPc = "classified" =>
        /\ relationship.classification \in Classifications
        /\ relationship.classification = RuleCategory[EarliestRule(score)]
        /\ (score.body = 800 /\ score.title = 760 /\ score.intro = 700
                => relationship.classification = "Definite Duplicate")
        /\ (score.body = 780 /\ score.title = 750
                => relationship.classification = "Definite Duplicate")

\* A classified score on the thresholds of rule 1 for which rule 2 holds too.
C1_Witness ==
    /\ simPc = "classified"
    /\ score.body = 780 /\ score.title = 750 /\ score.intro = 700
    /\ RuleHolds(1, score) /\ RuleHolds(2, score)
    /\ relationship.classification = "Definite Duplicate"

(***************************************************************************)
(* Properties of identifyIntentClusters.                                   *)
(***************************************************************************)
\* u and v are the two URLs of some Intent Collision of the input.
CollisionEdge(u, v) ==
    \E i \in 1..Len(relationships) :
        /\ relationships[i].classification = "Intent Collision"
        /\ {relationships[i].url_a, relationships[i].url_b} = {u, v}

\* The URLs a path of Intent Collisions joins to a URL of S (S included).
RECURSIVE ReachFrom(_)
ReachFrom(S) ==
    LET T == S \cup {v \in URLs : \E u \in S : CollisionEdge(u, v)}
    IN  IF T = S THEN S ELSE ReachFrom(T)

Component(u) == ReachFrom({u})

\* The URLs of a cluster, primary first.
Members(c) == <<c.primary_url>> \o c.cluster_urls

InSameCluster(u, v) ==
    \E i \in 1..Len(clusters) : {u, v} \subseteq Range(Members(clusters[i]))

\* C2: two URLs are in the same cluster iff a path of Intent Collision
\* relationships joins them; with A-B and B-C Intent Collision and A-C of
\* another classification the result is one cluster holding A, B and C.
C2_ClustersAreConnectivity ==
    cluPc = "done" =>
        /\ LET comp == [u \in URLs |-> Component(u)]
           IN  \A u, v \in URLs : u # v => (InSameCluster(u, v) <=> v \in comp[u])
        /\ (relationships =
                <<[url_a |-> "a", url_b |-> "b", classification |-> "Intent Collision"],
                  [url_a |-> "b", url_b |-> "c", classification |-> "Intent Collision"],
                  [url_a |-> "a", url_b |-> "c", classification |-> "Near Duplicate"]>>
              => /\ Len(clusters) = 1
                 /\ Range(Members(clusters[1])) = {"a", "b", "c"})

\* A-B and B-C collide, A-C is a Near Duplicate: one cluster of three.
C2_Witness ==
    /\ cluPc = "done"
    /\ \E i, j, k \in 1..Len(relationships) :
          /\ relationships[i] = [url_a |-> "a", url_b |-> "b", classification |-> "Intent Collision"]
          /\ relationships[j] = [url_a |-> "b", url_b |-> "c", classification |-> "Intent Collision"]
          /\ relationships[k] = [url_a |-> "a", url_b |-> "c", classification |-> "Near Duplicate"]
    /\ ~CollisionEdge("a", "c")
    /\ Len(clusters) = 1
    /\ InSameCluster("a", "c")

\* The URLs of the Intent Collisions in the order they appear in the list,
\* url_a before url_b.
RECURSIVE Appearances(_)
Appearances(rels) ==
    IF rels = <<>> THEN <<>>
    ELSE (IF Head(rels).classification = "Intent Collision"
          THEN <<Head(rels).url_a, Head(rels).url_b>> ELSE <<>>)
         \o Appearances(Tail(rels))

\* The place of the first occurrence of x in s.
FirstIndex(s, x) == CHOOSE i \in 1..Len(s) : s[i] = x /\ \A j \in 1..(i - 1) : s[j] # x

\* The place of the first Intent Collision between u and v.
FirstEdge(u, v) ==
    CHOOSE i \in 1..Len(relationships) :
        /\ relationships[i].classification = "Intent Collision"
        /\ {relationships[i].url_a, relationships[i].url_b} = {u, v}
        /\ \A j \in 1..(i - 1) :
              ~(/\ relationships[j].classification = "Intent Collision"
                /\ {relationships[j].url_a, relationships[j].url_b} = {u, v})

\* In a breadth-first visit, the node from which position i of the order m
\* was discovered: the earliest visited node adjacent to it.
Parent(m, i) ==
    CHOOSE p \in 1..(i - 1) :
        /\ CollisionEdge(m[p], m[i])
        /\ \A q \in 1..(p - 1) : ~CollisionEdge(m[q], m[i])

\* m is the order of a breadth-first visit that takes the neighbours of a
\* node in the order the node's collisions list them.
IsBreadthFirstOrder(m) ==
    /\ \A i \in 2..Len(m) : \E p \in 1..(i - 1) : CollisionEdge(m[p], m[i])
    /\ \A i, j \in 2..Len(m) :
          i < j =>
              \/ Parent(m, i) < Parent(m, j)
              \/ /\ Parent(m, i) = Parent(m, j)
                 /\ FirstEdge(m[Parent(m, i)], m[i]) < FirstEdge(m[Parent(m, j)], m[j])

\* The components of two or more URLs.
BigComponents ==
    LET comp == [u \in URLs |-> Component(u)]
    IN  {comp[u] : u \in {v \in URLs : Cardinality(comp[v]) >= 2}}

\* C3: each component of two or more URLs gives exactly one cluster; its
\* primary_url is the URL of the component that appears first in the
\* collision list (url_a before url_b), and cluster_urls are the other URLs
\* of the component in breadth-first visitation order.
C3_PrimaryAndBfsOrder ==
    cluPc = "done" =>
      LET big == BigComponents
      IN
        /\ Len(clusters) = Cardinality(big)
        /\ \A comp \in big :
              \E i \in 1..Len(clusters) :
                  /\ Range(Members(clusters[i])) = comp
                  /\ \A j \in 1..Len(clusters) :
                        Range(Members(clusters[j])) = comp => j = i
        /\ \A i \in 1..Len(clusters) :
              LET m == Members(clusters[i])
                  app == Appearances(relationships)
              IN  /\ Len(m) = Cardinality(Range(m))
                  /\ \A u \in Range(m) :
                        FirstIndex(app, clusters[i].primary_url) <= FirstIndex(app, u)
                  /\ IsBreadthFirstOrder(m)

UrlRank == [u \in URLs |-> CHOOSE i \in 1..4 : <<"a", "b", "c", "d">>[i] = u]

\* A cluster of all four URLs whose primary is none of the first two and
\* whose cluster_urls are not in sorted order.
C3_Witness ==
    /\ cluPc = "done"
    /\ Len(clusters) = 1
    /\ Len(clusters[1].cluster_urls) = 3
    /\ clusters[1].primary_url = "c"
    /\ UrlRank[clusters[1].cluster_urls[1]] > UrlRank[clusters[1].cluster_urls[2]]

\* C4: every cluster has at least one entry in cluster_urls and lists no URL
\* twice, no URL is in two clusters, a URL whose component is itself alone
\* (also when it collides with itself) is in no cluster, and the result is
\* empty when no relationship is an Intent Collision.
C4_ClustersWellFormed ==
    cluPc = "done" =>
        /\ \A i \in 1..Len(clusters) :
              /\ Len(clusters[i].cluster_urls) >= 1
              /\ Cardinality(Range(Members(clusters[i]))) = Len(Members(clusters[i]))
        /\ \A i, j \in 1..Len(clusters) :
              i # j => Range(Members(clusters[i])) \cap Range(Members(clusters[j])) = {}
        /\ \A u \in URLs :
              Component(u) = {u} =>
                  \A i \in 1..Len(clusters) : u \notin Range(Members(clusters[i]))
        /\ (Appearances(relationships) = <<>> => clusters = <<>>)

\* A URL that collides only with itself, beside a cluster of two other URLs.
C4_Witness ==
    /\ cluPc = "done"
    /\ CollisionEdge("a", "a")
    /\ Component("a") = {"a"}
    /\ Len(clusters) = 1
    /\ "a" \notin Range(Members(clusters[1]))

(***************************************************************************)
(* Properties of ScoringService.evaluate and LlmService.evaluate.          *)
(***************************************************************************)
\* r is Math.round(n / d), d > 0: the integer with r - 1/2 <= n/d < r + 1/2.
IsRounded(r, n, d) == 2 * d * r - d <= 2 * n /\ 2 * n < 2 * d * r + d

\* C5: overall_score is H when includeLlm is false or there is no consensus,
\* else round(0.5*H + 0.5*C); score_composition is 'blended' exactly in the
\* second case; H=80, C=60 with includeLlm gives 70, H=80 without gives 80.
C5_ScoreBlending ==
    evalPc = "done" =>
        LET h == heuristicScore
            c == evalResult.llm_evaluations.consensus_score
            blended == includeLlm /\ c # Null
        IN  /\ (~blended => evalResult.overall_score = h)
            /\ (blended => IsRounded(evalResult.overall_score, h + c.value, 2))
            /\ (evalResult.score_composition = "blended" <=> blended)
            /\ evalResult.score_composition \in {"blended", "heuristics_only"}
            /\ (blended /\ h = 80 /\ c.value = 60 => evalResult.overall_score = 70)
            /\ (~includeLlm /\ h = 80 => evalResult.overall_score = 80)

\* A blend on a tie: H = 81 and C = 60 give round(70.5) = 71.
C5_Witness ==
    /\ evalPc = "done"
    /\ includeLlm
    /\ heuristicScore = 81
    /\ evalResult.llm_evaluations.consensus_score = Some(60)
    /\ evalResult.overall_score = 71
    /\ evalResult.score_composition = "blended"

\* A reply the specification rejects: not valid JSON, a dimension that is
\* missing or has no numeric score, or an overall_score that is missing or
\* not a number.  (The JSON text null has none of the dimensions.)
Rejectable(content) ==
    \/ content.json \in {"invalid", "null"}
    \/ \E d \in Range(Dimensions) :
          \/ content.dims[d].t = "absent"
          \/ content.dims[d].score.t # "num"
    \/ content.overall.t # "num"

\* consensus is the rounded mean of the overall scores of the models of S,
\* and null when S is empty.
IsConsensusOf(consensus, llm, S) ==
    IF S = {} THEN consensus = Null
    ELSE /\ consensus # Null
         /\ \E f \in [1..Cardinality(S) -> S] :
               /\ \A i, j \in 1..Cardinality(S) : i # j => f[i] # f[j]
               /\ IsRounded(consensus.value,
                            SumSeq([i \in 1..Cardinality(S) |-> llm[f[i]].overall_score]),
                            Cardinality(S))

\* C6: a reply that is not valid JSON, or lacks a dimension or a numeric
\* score of a dimension, or lacks a numeric overall_score, is rejected as a
\* whole: the call still fulfils (no error), the model's evaluation is null,
\* and the consensus is that of the other models' evaluations alone.
C6_InvalidReplyRejected ==
    \A k \in Models :
        (calls[k].outcome # Null /\ calls[k].outcome.kind = "content"
            /\ Rejectable(calls[k].outcome.content))
        => /\ calls[k].status = "fulfilled"
           /\ calls[k].value = Null
           /\ (evalPc = "done" =>
                 /\ llmResults[k] = Null
                 /\ evalResult # Null
                 /\ evalResult.llm_evaluations[k] = Null
                 /\ IsConsensusOf(llmResults.consensus_score, llmResults,
                                  {j \in Models \ {k} : llmResults[j] # Null}))

\* claude's reply lacks only the score of structure_quality; gpt's is valid.
C6_Witness ==
    /\ evalPc = "done"
    /\ calls["claude"].outcome # Null
    /\ calls["claude"].outcome.kind = "content"
    /\ calls["claude"].outcome.content.json = "object"
    /\ calls["claude"].outcome.content.dims["structure_quality"] = JDim(JAbsent)
    /\ \A d \in Range(Dimensions) \ {"structure_quality"} :
          calls["claude"].outcome.content.dims[d] = JDim(JNum(705))
    /\ calls["claude"].outcome.content.overall = JNum(600)
    /\ llmResults["claude"] = Null
    /\ llmResults["gpt"] # Null
    /\ llmResults.consensus_score = Some(llmResults["gpt"].overall_score)

\* C7: consensus_score is the rounded mean of the overall_score of exactly
\* the models whose evaluation is non-null, and null when there is none.
C7_ConsensusIsRoundedMean ==
    (evalPc = "done" /\ llmResults # Null) =>
        IsConsensusOf(llmResults.consensus_score, llmResults,
                      {k \in Models : llmResults[k] # Null})

\* Two models succeeded with 60 and 61, one failed: the mean 60.5 rounds to 61.
C7_Witness ==
    /\ evalPc = "done"
    /\ llmResults # Null
    /\ llmResults["claude"] # Null /\ llmResults["claude"].overall_score = 60
    /\ llmResults["gpt"] = Null
    /\ llmResults["gemini"] # Null /\ llmResults["gemini"].overall_score = 61
    /\ llmResults.consensus_score = Some(61)

\* The call of model k succeeded: it ended with content that is not rejected.
Succeeded(k) ==
    /\ calls[k].outcome # Null
    /\ calls[k].outcome.kind = "content"
    /\ ~Rejectable(calls[k].outcome.content)

Settled(k) == calls[k].status \in {"fulfilled", "rejected"}

\* C8: the three calls are a fan-out/fan-in barrier.  Once any call has been
\* started all three have been, each with one request; the result is computed
\* only after all three have settled; whatever calls fail and in whatever
\* order they complete, no promise rejects and evaluate returns a result
\* with a non-null evaluation for exactly the calls that succeeded, each the
\* evaluation of that model's own reply.
C8_FanOutFanIn ==
    /\ (\E k \in Models : calls[k].status # "idle")
          => \A k \in Models : calls[k].status # "idle" /\ requests[k] = 1
    /\ (evalPc = "awaiting" => llmResults = Null /\ evalResult = Null)
    /\ \A k \in Models : calls[k].status # "rejected"
    /\ (evalPc = "done" /\ includeLlm /\ apiKey # "" =>
          /\ \A k \in Models : Settled(k)
          /\ evalResult # Null
          /\ \A k \in Models :
                /\ (llmResults[k] # Null <=> Succeeded(k))
                /\ (Succeeded(k) =>
                      llmResults[k] = ParseEvaluation(calls[k].outcome.content)))

\* gemini completes first and succeeds, then claude times out, then gpt gets
\* an HTTP error: only gemini has an evaluation.
C8_Witness ==
    /\ evalPc = "done"
    /\ settleOrder = <<"gemini", "claude", "gpt">>
    /\ calls["claude"].outcome.kind = "timeout"
    /\ calls["gpt"].outcome.kind = "http_error"
    /\ Succeeded("gemini")
    /\ llmResults["gemini"] # Null
    /\ llmResults["claude"] = Null
    /\ llmResults["gpt"] = Null

\* C9: without OPENROUTER_API_KEY LlmService.evaluate issues no call and
\* returns all null, and ScoringService.evaluate with includeLlm still
\* returns the heuristics overall as 'heuristics_only'; with includeLlm false
\* LlmService.evaluate is not invoked at all.
C9_NoKeyDegrades ==
    /\ (includeLlm /\ apiKey = "" =>
          /\ \A k \in Models : requests[k] = 0 /\ calls[k].status = "idle"
          /\ evalPc # "awaiting"
          /\ (evalPc = "done" =>
                /\ llmResults = NoLlmResults
                /\ evalResult # Null
                /\ evalResult.llm_evaluations = NoLlmResults
                /\ evalResult.overall_score = heuristicScore
                /\ evalResult.score_composition = "heuristics_only"))
    /\ (~includeLlm =>
          /\ llmResults = Null
          /\ \A k \in Models : requests[k] = 0 /\ calls[k].status = "idle")

\* An evaluation with includeLlm and no key that has returned.
C9_Witness ==
    /\ evalPc = "done"
    /\ includeLlm
    /\ apiKey = ""
    /\ evalResult.overall_score = 81
    /\ evalResult.score_composition = "heuristics_only"

(***************************************************************************)
(* C10: every analyzer's score is an integer in [0,100], for every page.   *)
(***************************************************************************)
\* The analyzers that have run on the page.
Ran(name) == anaPc # 0 /\ analyzed[name] # Null

IsScore(x) == IsInteger(x) /\ RLe(Num(0), x) /\ RLe(x, Num(100))

\* C10: on every page, each of the five analyzers (semantic HTML, structured
\* data, content clarity, citation markers, factual density) returns a score
\* that is an integer between 0 and 100, also when mainTextLength is negative
\* or larger than totalTextLength and when the page's lists are empty.
C10_AnalyzerScoresInRange ==
    \A i \in 1..Len(Analyzers) : Ran(Analyzers[i]) => IsScore(analyzed[Analyzers[i]].score)

\* All five analyzers have run on a page with enough text whose mainTextLength
\* is negative, and the factual density analyzer scored it past its early
\* return.
C10_Witness ==
    /\ \A i \in 1..Len(Analyzers) : Ran(Analyzers[i])
    /\ page.mainTextLength < 0
    /\ page.totalTextLength >= MinTextLength
    /\ page.headings = <<>> /\ page.paragraphs = <<>> /\ page.links = <<>>
    /\ page.tables = <<>>
    /\ "high" \in Range(analyzed["factual_density"].items)
    /\ IsScore(analyzed["factual_density"].score)

(***************************************************************************)
(* C11: the overall heuristic score is the rounded mean of the five.       *)
(***************************************************************************)
Aggregated == anaPc = Len(Analyzers) + 2

\* The integer scores of the five analyzers, in the order of the code.
ScoresOf(results) == [i \in 1..Len(Analyzers) |-> results[Analyzers[i]].score[1]]

\* C11: HeuristicsService.run returns overall = round(mean of the five
\* analyzer scores), for any five scores in 0..100 (80, 60, 90, 70, 50 gives
\* 70), and the five category scores of the result are the scores the
\* analyzers returned.
C11_OverallIsRoundedMean ==
    Aggregated =>
        /\ IsInteger(heuristics.result.overall)
        /\ IsRounded(heuristics.result.overall[1], SumSeq(ScoresOf(analyzed)), 5)
        /\ ScoresOf(analyzed) = <<80, 60, 90, 70, 50>>
               => heuristics.result.overall = Num(70)
        /\ \A i \in 1..Len(Analyzers) :
               heuristics.result[Analyzers[i]] = analyzed[Analyzers[i]].score

\* The aggregation has run on the scores 80, 60, 90, 70, 50.
C11_Witness ==
    /\ Aggregated
    /\ ScoresOf(analyzed) = <<80, 60, 90, 70, 50>>
    /\ heuristics.result.overall = Num(70)

(***************************************************************************)
(* C12: the actionable items are the concatenation, stable-sorted.         *)
(***************************************************************************)
\* The place of an analyzer in the order of the code.
AnalyzerRank(name) == CHOOSE i \in 1..Len(Analyzers) : Analyzers[i] = name

\* Item x comes before item y in the concatenation of the five lists.
ConcatBefore(x, y) ==
    \/ AnalyzerRank(x.category) < AnalyzerRank(y.category)
    \/ x.category = y.category /\ x.n < y.n

\* C12: the actionable items of run are the items of the five analyzers, none
\* dropped and none twice, every high item before every medium item and every
\* medium before every low, items of one priority in concatenation order
\* (semantic HTML, structured data, content clarity, citation markers, factual
\* density).
C12_ItemsStableSorted ==
    Aggregated =>
        LET out == heuristics.actionableItems
            given ==
                UNION {{[priority |-> analyzed[a].items[i], category |-> a, n |-> i] :
                            i \in 1..Len(analyzed[a].items)} : a \in Range(Analyzers)}
        IN  /\ Range(out) = given
            /\ Len(out) = Cardinality(given)
            /\ \A i, j \in 1..Len(out) :
                   i < j =>
                       \/ PriorityOrder[out[i].priority] < PriorityOrder[out[j].priority]
                       \/ /\ out[i].priority = out[j].priority
                          /\ ConcatBefore(out[i], out[j])

\* The sort moved an item: a later analyzer's high item stands before an
\* earlier analyzer's low item, and two analyzers gave items of one priority.
C12_Witness ==
    /\ Aggregated
    /\ \E i, j \in 1..Len(heuristics.actionableItems) :
           /\ i < j
           /\ heuristics.actionableItems[i].priority = "high"
           /\ heuristics.actionableItems[j].priority = "low"
           /\ ConcatBefore(heuristics.actionableItems[j], heuristics.actionableItems[i])
    /\ \E i, j \in 1..Len(heuristics.actionableItems) :
           /\ i < j
           /\ heuristics.actionableItems[i].priority = heuristics.actionableItems[j].priority
           /\ heuristics.actionableItems[i].category # heuristics.actionableItems[j].category

(***************************************************************************)
(* Properties of analyzeUrls and of cosineSimilarity.                      *)
(***************************************************************************)
\* The places of the URLs whose fetch fails.
FailingPlaces == {p \in DOMAIN world : world[p].kind # "page"}

\* C13: no failure of an external call is thrown past its boundary:
\* fetchPageContent is never rejected and returns a page with fetchError
\* exactly when the fetch failed, be it by the provider, by the reply or by
\* the missing GEMINI_API_KEY; a failed embedding call gives the empty
\* vector; analyzeUrls is never rejected and its result counts and lists the
\* failed URLs.
C13_FailuresNeverThrown ==
    /\ pipePc # "thrown"
    /\ \A p \in DOMAIN fetched :
          fetched[p] # Null =>
              /\ "thrown" \notin DOMAIN fetched[p]
              /\ (fetched[p].fetchError # Null) <=> (~geminiKey \/ p \in FailingPlaces)
    /\ \A k \in 1..Len(withEmbeddings) :
          withEmbeddings[k].embeddings # Null =>
              /\ ~world[k].title.ok => withEmbeddings[k].embeddings["title"] = <<>>
              /\ ~world[k].intro_text.ok => withEmbeddings[k].embeddings["intro"] = <<>>
              /\ ~world[k].body_text.ok => withEmbeddings[k].embeddings["body"] = <<>>
              /\ ~world[k].full.ok => withEmbeddings[k].embeddings["full"] = <<>>
    /\ pipePc = "done" =>
          /\ simiResult.pages_failed = Cardinality(FailingPlaces)
          /\ simiResult.pages_analyzed = Len(urls) - Cardinality(FailingPlaces)
          /\ simiResult.failed_urls =
                IF FailingPlaces = {} THEN Null
                ELSE Some(LET failed == SelectSeq([p \in 1..Len(urls) |-> p],
                                                  LAMBDA p : p \in FailingPlaces)
                          IN  [k \in 1..Len(failed) |-> urls[failed[k]]])

\* The places of the pages fetched without error, in input order.
FetchedPlaces ==
    SelectSeq([p \in 1..Len(urls) |-> p], LAMBDA p : p \notin FailingPlaces)

\* C14: the relationships of a result are those of the pairs i < j of the
\* pages fetched without error, one each, the pair (i, j) of n pages at
\* index (i-1)n - i(i-1)/2 + (j-i): n(n-1)/2 relationships, url_a the
\* earlier page of the input; between different URLs no pair is reported in
\* both orders.
C14_OneRelationshipPerPair ==
    pipePc = "done" =>
        LET n == Len(FetchedPlaces)
            rels == simiResult.relationships
            IndexOf(i, j) == (i - 1) * n - ((i * (i - 1)) \div 2) + (j - i)
        IN  /\ Len(rels) = (n * (n - 1)) \div 2
            /\ \A i, j \in 1..n :
                  i < j =>
                      /\ rels[IndexOf(i, j)].url_a = urls[FetchedPlaces[i]]
                      /\ rels[IndexOf(i, j)].url_b = urls[FetchedPlaces[j]]
            /\ (\A p, q \in 1..Len(urls) : p # q => urls[p] # urls[q]) =>
                  \A k, l \in 1..Len(rels) :
                      /\ rels[k].url_a # rels[k].url_b
                      /\ ~(rels[k].url_a = rels[l].url_b /\ rels[k].url_b = rels[l].url_a)

\* Three URLs of which the second failed: the one relationship is that of
\* the first and the third.
C14_Witness ==
    /\ pipePc = "done"
    /\ urls = <<"a", "b", "c">>
    /\ FailingPlaces = {2}
    /\ Len(simiResult.relationships) = 1
    /\ simiResult.relationships[1].url_a = "a"
    /\ simiResult.relationships[1].url_b = "c"

\* C15: every relationship of a result has a confidence that is an integer
\* from 0 to 100, whichever branch classified it.
C15_ConfidenceInRange ==
    pipePc = "done" =>
        \A k \in 1..Len(simiResult.relationships) :
            simiResult.relationships[k].confidence \in 0..100

\* The scores of the similarity matrix of a finished analyzeUrls.
SimilarityScores ==
    IF pipePc = "done" THEN CalculateSimilarityMatrix(withEmbeddings) ELSE <<>>

\* C16 as stated: each of the four similarities of every score lies in
\* [0, 1], whatever vectors the embedding provider returned.
C16_SimilaritiesInUnitInterval ==
    LET scores == SimilarityScores
    IN  \A k \in 1..Len(scores) : \A f \in Facets : scores[k][f] \in 0..1000

\* C16, amended: each of the four similarities of every score lies in
\* [-1, 1].
C16_SimilaritiesInCosineRange ==
    LET scores == SimilarityScores
    IN  \A k \in 1..Len(scores) : \A f \in Facets : scores[k][f] \in -1000..1000

\* Two pages whose texts are embedded to opposite vectors: every similarity
\* of their score is -1.
C16_Witness ==
    LET scores == SimilarityScores
    IN  /\ Len(scores) = 1
        /\ \A f \in Facets : scores[1][f] = -1000

\* C17: cosineSimilarity is symmetric; it is 0 when a vector is empty, when
\* the lengths differ and when a vector is all zeros; it is 1 for a vector
\* that is not zero and itself; it returns a number in every case (no
\* division by zero).
C17_CosineContract ==
    cosine # Null =>
        LET AllZero(v) == \A i \in 1..Len(v) : v[i] = 0
        IN  /\ cosine.value[2] > 0
            /\ cosine.value = CosineSimilarity(vecB, vecA)
            /\ (AllZero(vecA) \/ AllZero(vecB) \/ Len(vecA) # Len(vecB)) =>
                  cosine.value = Num(0)
            /\ (vecA = vecB /\ ~AllZero(vecA)) => cosine.value = Num(1)

\* The similarity of a zero vector and a vector that is not zero was
\* computed: the denominator is 0.
C17_Witness ==
    /\ cosine = Some(Num(0))
    /\ vecA = <<0, 0>>
    /\ vecB = <<3, 4>>

\* C18: the URLs are fetched in consecutive batches of at most CONCURRENCY:
\* never more fetches in flight, no fetch of a batch begun while a fetch of
\* an earlier batch is unsettled; the list fetchMultiplePages returns has
\* the page of each URL at the place of the URL, in whatever order the
\* fetches settled, and generateEmbeddings keeps places and length.
C18_BatchesAndOrder ==
    LET BatchOf(p) == (p - 1) \div Concurrency
    IN  /\ Cardinality(InFlight) <= Concurrency
        /\ \A p, q \in DOMAIN fetched :
              (BatchOf(p) < BatchOf(q) /\ fetchCount[q] > 0) => fetched[p] # Null
        /\ pipePc \in {"embedding", "done"} =>
              /\ Len(fetchResults) = Len(urls)
              /\ \A k \in 1..Len(urls) :
                    fetchResults[k] = fetched[k] /\ fetchResults[k].url = urls[k]
        /\ Len(withEmbeddings) <= Len(urls)
        /\ \A k \in 1..Len(withEmbeddings) :
              /\ withEmbeddings[k].url = urls[k]
              /\ withEmbeddings[k].fetchError = fetchResults[k].fetchError
        /\ pipePc = "done" => Len(withEmbeddings) = Len(urls)

\* The second batch is in flight: the ten pages of the first batch are
\* collected, and a fetch of the second batch has settled before another.
C18_Witness ==
    /\ pipePc = "fetching"
    /\ Len(urls) > Concurrency
    /\ Len(fetchResults) = Concurrency
    /\ fetched[Len(urls)] # Null
    /\ (Concurrency + 1) \in InFlight

\* C19: no external call is retried.  In one evaluate each model is sent
\* at most one request, and a request that failed or timed out leaves null
\* for the model and the one request.  In one analyzeUrls each URL is
\* fetched at most once and each text of each page embedded at most once;
\* a failed fetch leaves fetchError and a failed embedding the empty vector.
C19_NoRetries ==
    LET TextOf(k, f) ==
            CASE f = "title" -> world[k].title
              [] f = "intro" -> world[k].intro_text
              [] f = "body" -> world[k].body_text
              [] f = "full" -> world[k].full
    IN  /\ \A k \in Models :
              /\ requests[k] <= 1
              /\ (calls[k].outcome # Null /\ calls[k].outcome.kind # "content") =>
                    /\ calls[k].status = "fulfilled"
                    /\ calls[k].value = Null
                    /\ requests[k] = 1
        /\ \A p \in DOMAIN fetched :
              /\ fetchCount[p] <= 1
              /\ (fetched[p] # Null /\ fetchCount[p] > 0 /\ p \in FailingPlaces) =>
                    fetched[p].fetchError # Null /\ fetchCount[p] = 1
        /\ \A k \in 1..Len(withEmbeddings) :
              \A f \in Facets :
                  /\ embedCount[k][f] <= 1
                  /\ (withEmbeddings[k].embeddings # Null
                      /\ ~TextOf(k, f).empty /\ ~TextOf(k, f).ok) =>
                        /\ withEmbeddings[k].embeddings[f] = <<>>
                        /\ embedCount[k][f] = 1

\* An analyzeUrls has ended in which a fetch failed and the embedding of a
\* body text failed: one request was sent for each.
C19_Witness ==
    /\ pipePc = "done"
    /\ urls = <<"a", "b">>
    /\ FailingPlaces = {1}
    /\ fetchCount = <<1, 1>>
    /\ fetchResults[1].fetchError # Null
    /\ ~world[2].body_text.empty /\ ~world[2].body_text.ok
    /\ embedCount[2]["body"] = 1
    /\ withEmbeddings[2].embeddings["body"] = <<>>

(***************************************************************************)
(* C20: too little text is a score of 0, one issue and one item.           *)
(***************************************************************************)
\* The result of the early return: score 0, one issue, one actionable item
\* of priority high, and nothing of a sub-check.
TooShortResult == [score |-> Num(0), issues |-> 1, items |-> <<"high">>]

\* C20: analyzeContentClarity on a page whose paragraphs, joined by single
\* spaces, have fewer than 50 characters, and analyzeFactualDensity on a
\* page whose totalTextLength is below 50, return score 0 with exactly one
\* issue and exactly one actionable item, of priority high, and nothing
\* that a sub-check would add.
C20_TooShortIsScoreZero ==
    LET joined == SumSeq([i \in 1..Len(page.paragraphs) |-> page.paragraphs[i].chars])
                  + (IF Len(page.paragraphs) > 1 THEN Len(page.paragraphs) - 1 ELSE 0)
    IN  /\ (Ran("content_clarity") /\ joined < 50) =>
              analyzed["content_clarity"] = TooShortResult
        /\ (Ran("factual_density") /\ page.totalTextLength < 50) =>
              analyzed["factual_density"] = TooShortResult

\* Content clarity has run on a page of one paragraph of exactly 40
\* characters, and factual density on its total text of fewer than 50.
C20_Witness ==
    /\ Ran("content_clarity") /\ Ran("factual_density")
    /\ Len(page.paragraphs) = 1
    /\ page.paragraphs[1].chars = 40
    /\ page.totalTextLength < 50
    /\ analyzed["content_clarity"] = TooShortResult
    /\ analyzed["factual_density"] = TooShortResult

(***************************************************************************)
(* C21: the scores of an evaluation are rounded and clamped.               *)
(***************************************************************************)
\* out is the number raw (in tenths) rounded to an integer and clamped to
\* [0, 100].
IsClampedRound(out, raw) ==
    /\ out \in 0..100
    /\ raw.v < 0 => out = 0
    /\ raw.v > 1000 => out = 100
    /\ (0 <= raw.v /\ raw.v <= 1000) =>
          (10 * out - raw.v <= 5 /\ raw.v - 10 * out <= 5)

\* C21: every evaluation a call of a model returns has its five dimension
\* scores and its overall_score rounded to an integer and clamped to
\* [0, 100], whatever numbers the reply held; the consensus of the
\* evaluations, when there is one, is an integer in [0, 100].
C21_ScoresClampedAndRounded ==
    /\ \A k \in Models :
          calls[k].value # Null =>
              /\ \A d \in Range(Dimensions) :
                    IsClampedRound(calls[k].value.dims[d],
                                   calls[k].outcome.content.dims[d].score)
              /\ IsClampedRound(calls[k].value.overall_score,
                                calls[k].outcome.content.overall)
    /\ llmResults # Null =>
          /\ \A k \in Models : llmResults[k] # Null => llmResults[k] = calls[k].value
          /\ llmResults.consensus_score # Null =>
                llmResults.consensus_score.value \in 0..100

\* An evaluate has ended in which one model returned dimension scores of
\* 150 and an overall_score of 60.5, another dimension scores of -5 and an
\* overall_score of 150: they are 100 and 61, 0 and 100.
C21_Witness ==
    /\ evalPc = "done"
    /\ llmResults # Null
    /\ llmResults.consensus_score # Null
    /\ \E k, l \in Models :
          /\ calls[k].value # Null /\ calls[l].value # Null
          /\ calls[k].outcome.content.overall = JNum(605)
          /\ calls[k].outcome.content.dims["extractability"] = JDim(JNum(1500))
          /\ calls[k].value.overall_score = 61
          /\ calls[k].value.dims["extractability"] = 100
          /\ calls[l].outcome.content.overall = JNum(1500)
          /\ calls[l].outcome.content.dims["extractability"] = JDim(JNum(-50))
          /\ calls[l].value.overall_score = 100
          /\ calls[l].value.dims["extractability"] = 0

(***************************************************************************)
(* C22: the confidence of each branch and the rounded summary.             *)
(***************************************************************************)
\* C22: the confidence of a relationship is that of the branch which
\* classified it, computed from the unrounded similarities: Definite
\* Duplicate round(mean(body, title) * 100), Near Duplicate
\* round(mean(body, intro) * 100), Intent Collision round(title * 100),
\* Potential Cannibalization round(mean(title, body) * 100), Template
\* Overlap round(full * 100), Unique round((1 - full) * 100); the summary
\* holds each of the four similarities rounded to 2 decimals.
C22_ConfidenceOfBranch ==
    simPc = "classified" =>
        LET c == relationship.confidence
            k == relationship.classification
        IN  /\ CASE k = "Definite Duplicate" -> IsRounded(c, score.body + score.title, 20)
                 [] k = "Near Duplicate" -> IsRounded(c, score.body + score.intro, 20)
                 [] k = "Intent Collision" -> IsRounded(c, score.title, 10)
                 [] k = "Potential Cannibalization" ->
                        IsRounded(c, score.title + score.body, 20)
                 [] k = "Template Overlap" -> IsRounded(c, score.full, 10)
                 [] k = "Unique" -> IsRounded(c, 1000 - score.full, 10)
            /\ \A f \in {"title", "intro", "body", "full"} :
                  IsRounded(relationship.summary[f], score[f], 10)

\* A Definite Duplicate of body 0.785 and title 0.755: its confidence is 77,
\* which the rounded similarities 0.79 and 0.76 would not give.
C22_Witness ==
    /\ simPc = "classified"
    /\ score.body = 785 /\ score.title = 755
    /\ relationship.classification = "Definite Duplicate"
    /\ relationship.confidence = 77
    /\ relationship.summary["body"] = 79 /\ relationship.summary["title"] = 76

(***************************************************************************)
(* C23: the sub-scores and the weights of the analyzers.                   *)
(***************************************************************************)
\* The sub-scores the weighted sum of an analyzer takes on the page, the
\* integer ones as rationals; those of the structured data analyzer that
\* its body computes in place (microdata, author) are left out.
SubScores(name) ==
    LET text == JoinedParagraphs(page)
        Ints(s) == [i \in 1..Len(s) |-> Num(s[i])]
    IN  CASE name = "semantic_html" ->
                Ints(<<HeadingScore(page.headings), LandmarkScore(page.landmarks),
                       SemanticRatioScore(page.semanticElements, page.divCount),
                       ListScore(page.lists), TableScore(page.tables)>>)
          [] name = "structured_data" ->
                Ints(<<JsonLdScore(page.jsonLd), OgScore(page.ogKeys),
                       BreadcrumbScore(page)>>)
          [] name = "content_clarity" ->
                IF text.chars < MinTextLength THEN <<>>
                ELSE <<ReadabilityScore(FleschKincaidReadingEase(text)),
                       SentenceLengthScore(AverageSentenceLength(text)),
                       ParagraphScore(page.paragraphs), JargonScore(JargonDensity(text))>>
          [] name = "citation_markers" ->
                Ints(<<DateScore(page), CitationAuthorScore(page),
                       ExternalLinkScore(page.links), SourceRefScore(page),
                       FootnoteScore(page)>>)
          [] name = "factual_density" ->
                IF page.totalTextLength < MinTextLength THEN <<>>
                ELSE <<ContentNavScore(page),
                       FluffScore(Per100(page.paragraphText.fluff, text.words)),
                       InfoDensityScore(Per100(page.paragraphText.numbers
                                               + page.paragraphText.dates, text.words)),
                       Num(BoilerplateScore(page))>>

\* C23: in every analyzer each sub-score lies in [0, 100] before it is
\* weighted, and the weights of the analyzer sum to 1; in particular the
\* content/nav sub-score of factual density, for every mainTextLength and
\* totalTextLength of a page.
C23_SubScoresInRange ==
    \A i \in 1..Len(Analyzers) :
        /\ SumSeq(Weights[Analyzers[i]]) = 100
        /\ Ran(Analyzers[i]) =>
              \A j \in 1..Len(SubScores(Analyzers[i])) :
                  /\ RLe(Num(0), SubScores(Analyzers[i])[j])
                  /\ RLe(SubScores(Analyzers[i])[j], Num(100))

(***************************************************************************)
(* C24: the heading hierarchy sub-score.                                   *)
(***************************************************************************)
\* The number of H1 headings, whether a heading is more than one level
\* deeper than the one before it, and the number of distinct levels.
HeadingFacts ==
    LET hs == page.headings
    IN  [h1 |-> Cardinality({i \in 1..Len(hs) : hs[i].level = 1}),
         skips |-> \E i \in 1..(Len(hs) - 1) : hs[i + 1].level - hs[i].level > 1,
         levels |-> Cardinality({hs[i].level : i \in 1..Len(hs)})]

\* C24 as stated: with a heading, the sub-score is the sum of 40 points
\* given iff there is exactly one H1, 40 points given iff no level is
\* skipped and 20 points given iff 3 or more levels are used; it is 0
\* without a heading.
C24_HeadingPointsOnlyWhenMet ==
    Ran("semantic_html") =>
        HeadingScore(page.headings) =
            IF page.headings = <<>> THEN 0
            ELSE (IF HeadingFacts.h1 = 1 THEN 40 ELSE 0)
                 + (IF ~HeadingFacts.skips THEN 40 ELSE 0)
                 + (IF HeadingFacts.levels >= 3 THEN 20 ELSE 0)

\* C24, amended: with a heading, the sub-score is the sum of 40 points for
\* exactly one H1 (15 for more than one, 0 for none), 40 points for no
\* skipped level (10 otherwise) and 20 points for 3 or more levels (10
\* otherwise), so one H1 without a skipped level and with fewer than 3
\* levels scores 90; it is 0 without a heading and never above 100.
C24_HeadingPoints ==
    Ran("semantic_html") =>
        /\ HeadingScore(page.headings) =
              IF page.headings = <<>> THEN 0
              ELSE (CASE HeadingFacts.h1 = 1 -> 40
                      [] HeadingFacts.h1 = 0 -> 0
                      [] HeadingFacts.h1 > 1 -> 15)
                   + (IF ~HeadingFacts.skips THEN 40 ELSE 10)
                   + (IF HeadingFacts.levels >= 3 THEN 20 ELSE 10)
        /\ HeadingScore(page.headings) <= 100
        /\ (HeadingFacts.h1 = 1 /\ ~HeadingFacts.skips /\ HeadingFacts.levels \in {1, 2})
              => HeadingScore(page.headings) = 90

\* The semantic HTML analyzer has run on a page with one H1, no skipped
\* level and fewer than 3 levels: the sub-score is 90.
C24_Witness ==
    /\ Ran("semantic_html")
    /\ page.headings # <<>>
    /\ HeadingFacts.h1 = 1 /\ ~HeadingFacts.skips /\ HeadingFacts.levels < 3
    /\ HeadingScore(page.headings) = 90

(***************************************************************************)
(* C25: at most one batch run at a time.                                   *)
(***************************************************************************)
\* What runBatch returns when it refuses to start.
Refusal == [started |-> FALSE, message |-> "Batch is already running"]

\* C25: at most one run is in progress; while one is, no runBatch gets past
\* the running check, and the runBatch that is refused starts no call,
\* appends no row and leaves isRunning, abortRequested and lastRunAt as they
\* were, whatever await the running batch is suspended at.
C25_AtMostOneRun ==
    /\ [](Cardinality(ActiveRuns) <= 1)
    /\ [][/\ ActiveRuns # {} =>
                \A r \in DOMAIN frames : frames[r].pc = "none" => frames'[r].pc = "none"
          /\ (ActiveRuns # {} /\ response' = Refusal /\ response # Refusal) =>
                UNCHANGED <<isRunning, abortRequested, lastRunAt, frames, inFlight,
                            batchLog, csvRows>>]_vars

\* A trigger has just been refused while a run that has appended a row is
\* waiting for a call, and another while a run is in its delay.
C25_Witness ==
    /\ response = Refusal
    /\ \E r \in ActiveRuns : frames[r].pc = "delaying" /\ frames[r].returned >= 1
    /\ csvRows # <<>>
    /\ isRunning

(***************************************************************************)
(* C26: stopBatch.                                                         *)
(***************************************************************************)
\* What stopBatch makes the controller answer.
StopAccepted == [stopped |-> TRUE, message |-> "Stop requested"]

StopRefused == [stopped |-> FALSE, message |-> "No batch is running"]

\* C26 as stated: (1) while a run is in progress and its stop was accepted,
\* no further call is started, and when the run ends its message is 'Batch
\* stopped'; (2) with no run in progress stopBatch answers false and leaves
\* abortRequested as it was; (3) a run starts with the stop request cleared,
\* so it gets to its first call whatever was requested before.
C26_StopSemantics ==
    [][/\ (ActiveRuns # {} /\ abortRequested) =>
              /\ batchLog' = batchLog
              /\ \A r \in ActiveRuns :
                    frames'[r].pc = "returned" => frames'[r].message = "Batch stopped"
       /\ (ActiveRuns = {} /\ response' \in {StopAccepted, StopRefused}
              /\ response' # response) =>
              /\ response' = StopRefused
              /\ abortRequested' = abortRequested
       /\ \A r \in DOMAIN frames :
              (frames[r].pc = "none" /\ frames'[r].pc = "calling") => ~abortRequested']_vars

(***************************************************************************)
(* C27: the running flag is cleared when a run ends.                       *)
(***************************************************************************)
\* C27: a run that has ended, by completing, by being stopped or by
\* throwing, has left isRunning = false: the flag is set only while a run
\* is suspended at a model call or at a delay.
C27_RunningFlagCleared ==
    isRunning => ActiveRuns # {}

(***************************************************************************)
(* C28: lastRunAt.                                                         *)
(***************************************************************************)
\* The rows of the CSV file that run r appended.
RowsOf(rows, r) == SelectSeq(rows, LAMBDA row : row.run = r)

\* The runs that end in the step, by returning or by throwing.
Ending(r) ==
    /\ frames[r].pc \notin {"returned", "thrown"}
    /\ frames'[r].pc \in {"returned", "thrown"}

CallsOf(r) == SelectSeq(batchLog, LAMBDA call : call.run = r)

\* The place of a provider in claude, gpt, gemini.
ModelRank(name) == CHOOSE i \in 1..3 : <<"claude", "gpt", "gemini">>[i] = name

\* Call a comes before call b: by question, then model, then search mode.
CallBefore(a, b) ==
    \/ a.question < b.question
    \/ /\ a.question = b.question
       /\ ModelRank(a.model_name) < ModelRank(b.model_name)
    \/ /\ a.question = b.question
       /\ a.model_name = b.model_name
       /\ ~a.search_enabled /\ b.search_enabled

\* The calls of run r are in order without a gap: every call before a call
\* that was started was started earlier.
InOrderOf(r) ==
    LET cs == CallsOf(r)
    IN  /\ \A i \in 1..(Len(cs) - 1) : CallBefore(cs[i], cs[i + 1])
        /\ \A i \in 1..Len(cs) :
              Cardinality({c \in [run : {r}, question : 1..cs[i].question,
                                  model_name : Range(BatchModels),
                                  search_enabled : BOOLEAN] : CallBefore(c, cs[i])}) = i - 1

C30_MetadataConsistent ==
    evalPc = "done" =>
        LET llm == evalResult.llm_evaluations
            succeeded == includeLlm /\ evalResult.llm_models_succeeded >= 1
        IN  /\ evalResult.score_composition = "blended" <=> succeeded
            /\ succeeded <=> llm.consensus_score # Null
            /\ evalResult.llm_models_succeeded =
                  IF includeLlm THEN Cardinality({k \in Models : llm[k] # Null}) ELSE 0
            /\ ~includeLlm =>
                  /\ evalResult.llm_models_succeeded = 0
                  /\ \A k \in Models : llm[k] = Null
                  /\ llm.consensus_score = Null
                  /\ evalResult.score_composition = "heuristics_only"
            /\ evalResult.overall_score \in 0..100
            /\ evalResult.llm_enabled = includeLlm

\* An evaluation with includeLlm in which one model of three succeeded: the
\* result is blended, with a heuristic score of 100.
C30_Witness ==
    /\ evalPc = "done"
    /\ includeLlm
    /\ evalResult.llm_models_succeeded = 1
    /\ evalResult.score_composition = "blended"
    /\ evalResult.llm_evaluations.consensus_score # Null
    /\ heuristicScore = 100
    /\ evalResult.overall_score \in 50..100

=============================================================================
